---------------------------- MODULE Spec2Model ----------------------------
(***************************************************************************)
(* A model of the read-only binary-search-tree file of bstree_file:        *)
(* the layout planner (BSTreeConstants, BSTreeLayout), the five node       *)
(* shapes with their byte_size / write / get / visit operations, the       *)
(* visitors, and the build and query drivers.                              *)
(*                                                                         *)
(* Conventions.                                                            *)
(*  - A buffer (&[u8]) is a sequence of entry slots; its byte length is    *)
(*    Len(buf) * e where e is the entry byte size.  Every offset the code  *)
(*    computes is a multiple of e, so a byte range [from, to) is the slot  *)
(*    range [from \div e + 1, to \div e].                                   *)
(*  - A Rust panic (assert!, slice index out of range, unreachable!,       *)
(*    Option::unwrap on None) is an outcome: the `panic` field of the      *)
(*    value an operation returns.  An io::Error is the `err` outcome.      *)
(*  - The model computes what a release build does.  Whatever a debug      *)
(*    build would stop on (debug_assert!, arithmetic overflow checks) is   *)
(*    recorded in a `dbg` field, so both build profiles can be read off    *)
(*    one state.                                                           *)
(***************************************************************************)
EXTENDS Integers, Sequences, FiniteSets, TLC

\* ------------------------------------------------------------------ bounds
\* Largest number of entries for which every sorted value sequence over
\* 1..MaxVal is explored.
MaxN == 3
MaxVal == 3
\* The deeper trees hold values of 1..MaxDeepVal.
MaxDeepVal == 5
\* Largest k of a knn query.
MaxK == 2
\* Largest finite limit of an all / range query, largest d_max of nn / knn.
MaxLimit == 1
MaxDMax == 1
\* Largest entry count handed to the planner alone.
MaxPlanN == 70
\* The entry count handed to the planner with the one geometry of many L1
\* pages per LD page (LargeLDConfig).
LargeLDPlanN == 423
\* Largest major, minor and patch number of the versions explored in full.
MaxVersionNum == 2
\* Largest length of the encoded meta-data handed to write_meta.
MaxMetaLen == 1
\* Strings: the longest String, the width of the string codec, the most
\* entries of a string index.
MaxStrLen == 3
StrWidth == 2
MaxStrN == 2
\* The external sort: the most rows of a small CSV input and their largest
\* value, the largest chunk_size and kway, the rows of the one large input
\* (with chunk_size 1 and kway 2 its merge takes ten levels), and the deepest
\* level reduce_to_k_files is followed to.
MaxRows == 4
MaxSortVal == 2
MaxChunkSize == 2
MaxKway == 3
BigN == 1025
MaxLevel == 11

\* The longest record array handed to the binary search alone.
MaxPageLen == 5
\* The signed values handed to the distance closure alone: those within
\* EdgeWidth of the smallest value, of zero and of the largest value of the
\* value type.
EdgeWidth == 1

\* std::usize::MAX stands for "no limit"; any number above every count does.
UsizeMax == 1000000

\* The hard limit of the planner's loop: `for depth in (2..=8).step_by(2)`.
LoopMaxDepth == 8

\* ------------------------------------------------------------ small helpers
Min(a, b) == IF a <= b THEN a ELSE b
Max(a, b) == IF a >= b THEN a ELSE b
Abs(a) == IF a >= 0 THEN a ELSE -a

\* Option<T> is a sequence of length 0 (None) or 1 (Some).
None == << >>
Some(x) == << x >>
IsSome(o) == Len(o) = 1

\* Entry { id, val }
Entry(i, v) == [id |-> i, val |-> v]

\* `let x = value; body`: the value is computed once, then named in the body.
Bind(x, F(_)) == F(x)
Bind2(x, y, F(_, _)) == F(x, y)

\* `x as u16`, `x as u8`
AsU16(x) == x % 65536
AsU8(x) == x % 256

\* ----------------------------------------------------------- configurations
\* What a build is given besides the entries: the entry byte size e (the
\* bytes of an identifier plus the bytes of a value, e.g. a 4-byte id and a
\* fixed-length string value) and the MemSizeArgs { l1, disk, fill_factor };
\* the fill factor is the fraction fill_num / fill_den.
\* nL1 = l1_byte_size / e, nL1InLD = (ld_byte_size / e + 1) / (nL1 + 1).
MemArgs(e, l1, disk, fill_num, fill_den) ==
  [e |-> e, l1 |-> l1, disk |-> disk, fill_num |-> fill_num, fill_den |-> fill_den]

\* MemSizeArgs::l1_byte_size: ((l1 * 1024) as f32 * fill_factor) as usize
MemSizeArgs_l1_byte_size(args) == (args.l1 * 1024 * args.fill_num) \div args.fill_den
\* MemSizeArgs::disk_byte_size
MemSizeArgs_disk_byte_size(args) == args.disk * 1024

MemConfigs ==
  { MemArgs(300, 1, 1, 1, 2),    \* nL1 = 1, nL1InLD = 2
    MemArgs(200, 1, 1, 1, 2),    \* nL1 = 2, nL1InLD = 2
    MemArgs(120, 1, 1, 1, 4),    \* nL1 = 2, nL1InLD = 3
    MemArgs(200, 1, 1, 1, 4) }   \* nL1 = 1, nL1InLD = 3 (nL1InLD - 1 > nL1)

\* Configurations for the planner alone: the above, plus pages that hold a
\* single L1 page per LD page, larger pages, and no disk cache at all.
PlanConfigs ==
  MemConfigs \cup
  { MemArgs(600, 1, 1, 1, 1),    \* nL1 = 1, nL1InLD = 1
    MemArgs(400, 1, 1, 1, 1),    \* nL1 = 2, nL1InLD = 1
    MemArgs(140, 1, 1, 1, 2),    \* nL1 = 3, nL1InLD = 2
    MemArgs(90, 1, 1, 1, 4),     \* nL1 = 2, nL1InLD = 4
    MemArgs(300, 1, 0, 1, 2) }   \* nL1 = 1, nL1InLD = 0

\* 16-byte entries, 16 of them per L1 page and 485 L1 pages per LD page: an
\* LD page holds 8244 entries.
LargeLDConfig == MemArgs(16, 1, 129, 1, 4)

\* BSTreeConstants::new
BSTreeConstants_new(n_entries, entry_byte_size, l1_byte_size, ld_byte_size) ==
  LET n_entries_per_l1page == l1_byte_size \div entry_byte_size
      n_entries_per_ldpage_max == ld_byte_size \div entry_byte_size
      n_l1page_per_ldpage ==
        (n_entries_per_ldpage_max + 1) \div (n_entries_per_l1page + 1)
  IN [ n_entries |-> n_entries,
       entry_byte_size |-> AsU8(entry_byte_size),
       n_entries_per_l1page |-> AsU16(n_entries_per_l1page),
       n_l1page_per_ldpage |-> AsU16(n_l1page_per_ldpage) ]

\* ------------------------------------------------------------------ planner
\* A u64 subtraction a - b with a < b wraps to 2^64 - d, d = b - a.  The two
\* operators below give, for X = 2^64 - d (1 <= d <= 65536) and a divisor
\* 1 <= m < 32768, the low 16 bits of X / m (what `as u16` keeps) and X % m,
\* by long division of X in base 2^16: X = [65535, 65535, 65535, 65536 - d].
WrapCarry(m) ==
  LET r3 == 65535 % m
      r2 == (r3 * 65536 + 65535) % m
  IN (r2 * 65536 + 65535) % m
WrapQuotU16(d, m) == ((WrapCarry(m) * 65536 + (65536 - d)) \div m) % 65536
WrapRem(d, m) == (WrapCarry(m) * 65536 + (65536 - d)) % m

\* What a panicking planner returns.  In every layout, wrapped tells that an
\* unsigned subtraction of the planner went below zero on the way to it.  A
\* panic inside from_known_depth keeps the depth that call was given, and a
\* panic of the recursive call is nested in what its caller had computed: the
\* calls in progress when the planner stopped.
LayoutPanic(why) ==
  [ status |-> "panic", why |-> why, dbg |-> TRUE, wrapped |-> FALSE,
    depth |-> 0, n_entries_root |-> 0, n_entries_main |-> 0,
    rigthmost_subtree |-> None ]

RECURSIVE BSTreeLayout_from(_, _)
RECURSIVE BSTreeLayout_from_loop(_, _, _, _)

\* BSTreeLayout::from_known_depth.  In the layout returned, n_entries_main
\* below zero stands for the wrapped u64 value 2^64 + n_entries_main.
BSTreeLayout_from_known_depth(depth, n_entries, n_subtree, cte) ==
  LET wraps == n_entries < n_subtree
      m == 1 + n_subtree
      n_root_u16 == IF wraps THEN WrapQuotU16(n_subtree - n_entries, m)
                    ELSE AsU16((n_entries - n_subtree) \div m)
      n_rem == IF wraps THEN WrapRem(n_subtree - n_entries, m)
               ELSE (n_entries - n_subtree) % m
  IN IF ~(n_root_u16 <= cte.n_entries_per_l1page)
     THEN [LayoutPanic("assert n_root <= n_entries_per_l1page")
             EXCEPT !.wrapped = wraps, !.depth = depth]
     ELSE IF n_rem = 0
     THEN [ status |-> "ok", why |-> "", dbg |-> wraps, wrapped |-> wraps,
            depth |-> depth,
            n_entries_root |-> n_root_u16, n_entries_main |-> n_entries,
            rigthmost_subtree |-> None ]
     ELSE LET n_entries_sub == n_rem - 1
              n_entries_main == n_entries - n_entries_sub
              sub == BSTreeLayout_from(n_entries_sub, cte)
          IN IF sub.status = "panic"
             THEN [ LayoutPanic(sub.why)
                      EXCEPT !.wrapped = wraps \/ sub.wrapped,
                             !.depth = depth,
                             !.n_entries_root = AsU16(n_root_u16 + 1),
                             !.n_entries_main = n_entries_main,
                             !.rigthmost_subtree = Some(sub) ]
             ELSE [ status |-> "ok", why |-> "", dbg |-> wraps \/ sub.dbg,
                    wrapped |-> wraps \/ sub.wrapped,
                    depth |-> depth,
                    n_entries_root |-> AsU16(n_root_u16 + 1),
                    n_entries_main |-> n_entries_main,
                    rigthmost_subtree |-> Some(sub) ]

\* The body of `for depth in (2..=8).step_by(2)` and what follows the loop.
BSTreeLayout_from_loop(depth, n_sub, n_entries, cte) ==
  LET n_l1 == cte.n_entries_per_l1page
      n_ld_elem == cte.n_l1page_per_ldpage - 1
      n_sub2 == n_l1 + (n_l1 + 1) * n_sub
  IN IF depth > LoopMaxDepth
     THEN LayoutPanic("Too deep tree")
     ELSE IF n_entries <= n_l1 + (n_l1 + 1) * n_sub
     THEN BSTreeLayout_from_known_depth(depth, n_entries, n_sub, cte)
     ELSE IF n_entries <= n_l1 + (n_l1 + 1) * n_sub2
     THEN BSTreeLayout_from_known_depth(depth + 1, n_entries, n_sub2, cte)
     ELSE BSTreeLayout_from_loop(depth + 2, n_ld_elem + (n_ld_elem + 1) * n_sub2,
                                 n_entries, cte)

\* BSTreeLayout::from.  With n_l1page_per_ldpage = 0 the u64 subtraction
\* `n_l1page_per_ldpage - 1` wraps to 2^64 - 1: n_ld = 2^64 - 1, the depth-2
\* test holds for every n and from_known_depth divides by 1 + n_subtree = 0.
BSTreeLayout_from(n_entries, cte) ==
  LET n_l1 == cte.n_entries_per_l1page
      n_ld_elem == cte.n_l1page_per_ldpage - 1
      n_ld == n_ld_elem + (n_ld_elem + 1) * n_l1
      lay == IF n_entries <= n_l1
             THEN [ status |-> "ok", why |-> "", dbg |-> FALSE,
                    wrapped |-> FALSE, depth |-> 0,
                    n_entries_root |-> AsU16(n_entries),
                    n_entries_main |-> n_entries,
                    rigthmost_subtree |-> None ]
             ELSE IF n_entries <= n_l1 + (n_l1 + 1) * n_l1
             THEN BSTreeLayout_from_known_depth(1, n_entries, n_l1, cte)
             ELSE IF cte.n_l1page_per_ldpage = 0
             THEN LayoutPanic("attempt to divide by zero")
             ELSE BSTreeLayout_from_loop(2, n_ld, n_entries, cte)
  IN IF cte.n_l1page_per_ldpage = 0
     THEN [lay EXCEPT !.dbg = TRUE, !.wrapped = TRUE]
     ELSE lay

\* BSTreeLayout::new
BSTreeLayout_new(cte) == BSTreeLayout_from(cte.n_entries, cte)

\* BSTreeMeta::from (the types are not modelled: one id type, one value type)
BSTreeMeta_from(n_entries, entry_byte_size, l1_byte_size, ld_byte_size) ==
  LET constants == BSTreeConstants_new(n_entries, entry_byte_size,
                                       l1_byte_size, ld_byte_size)
  IN [ constants |-> constants, layout |-> BSTreeLayout_new(constants) ]


\* -------------------------------------------------------------- node shapes
\* enum Root / SubTree / LDSubTree: the variant is the `kind` field.
L1Leaf_new(n_elems) ==
  [ kind |-> "L1Leaf", n_elems |-> n_elems, n_l1page_elems |-> 0,
    sub_tree |-> None, rightmost_subtree |-> None ]
L1Node_new(n_elems, sub_tree) ==
  [ kind |-> "L1Node", n_elems |-> n_elems, n_l1page_elems |-> 0,
    sub_tree |-> Some(sub_tree), rightmost_subtree |-> None ]
LDNode_new(n_elems, n_l1page_elems, sub_tree) ==
  [ kind |-> "LDNode", n_elems |-> n_elems, n_l1page_elems |-> n_l1page_elems,
    sub_tree |-> Some(sub_tree), rightmost_subtree |-> None ]
RootL1Node_new(n_elems, sub_tree, rightmost_subtree) ==
  [ kind |-> "RootL1Node", n_elems |-> n_elems, n_l1page_elems |-> 0,
    sub_tree |-> Some(sub_tree), rightmost_subtree |-> Some(rightmost_subtree) ]
RootLDNode_new(n_elems, n_l1page_elems, sub_tree, rightmost_subtree) ==
  [ kind |-> "RootLDNode", n_elems |-> n_elems,
    n_l1page_elems |-> n_l1page_elems,
    sub_tree |-> Some(sub_tree), rightmost_subtree |-> Some(rightmost_subtree) ]
\* The node get_ld_subtree would be building when `assert!(d < self.depth)` fails.
PanicNode ==
  [ kind |-> "Panic", n_elems |-> 0, n_l1page_elems |-> 0,
    sub_tree |-> None, rightmost_subtree |-> None ]

SubTreeOf(node) == node.sub_tree[1]
RightmostOf(node) == node.rightmost_subtree[1]

RECURSIVE get_subtree(_, _, _)
RECURSIVE get_ld_subtree(_, _, _)

\* BSTreeLayout::get_subtree
get_subtree(self, d, cte) ==
  IF d = self.depth
  THEN L1Leaf_new(cte.n_entries_per_l1page)
  ELSE IF d = self.depth - 1
  THEN L1Node_new(cte.n_l1page_per_ldpage - 1, get_subtree(self, d + 1, cte))
  ELSE LDNode_new(cte.n_l1page_per_ldpage - 1, cte.n_entries_per_l1page,
                  get_ld_subtree(self, d + 2, cte))

\* BSTreeLayout::get_ld_subtree
get_ld_subtree(self, d, cte) ==
  IF ~(d < self.depth)
  THEN PanicNode
  ELSE IF d = self.depth - 1
  THEN L1Node_new(cte.n_l1page_per_ldpage - 1, get_subtree(self, d + 1, cte))
  ELSE LDNode_new(cte.n_l1page_per_ldpage - 1, cte.n_entries_per_l1page,
                  get_ld_subtree(self, d + 2, cte))

RECURSIVE get_root(_, _)

\* BSTreeLayout::get_root
get_root(self, cte) ==
  LET odd == self.depth % 2 = 1
      spine == IsSome(self.rigthmost_subtree)
  IN IF self.depth = 0
     THEN L1Leaf_new(self.n_entries_root)
     ELSE IF self.depth = 1 /\ ~spine
     THEN L1Node_new(self.n_entries_root, get_subtree(self, 1, cte))
     ELSE IF self.depth = 1 /\ spine
     THEN RootL1Node_new(self.n_entries_root, get_subtree(self, 1, cte),
                         get_root(self.rigthmost_subtree[1], cte))
     ELSE IF ~odd /\ ~spine
     THEN L1Node_new(self.n_entries_root, get_subtree(self, 1, cte))
     ELSE IF odd /\ ~spine
     THEN LDNode_new(self.n_entries_root, cte.n_entries_per_l1page,
                     get_ld_subtree(self, 2, cte))
     ELSE IF ~odd /\ spine
     THEN RootL1Node_new(self.n_entries_root, get_subtree(self, 1, cte),
                         get_root(self.rigthmost_subtree[1], cte))
     ELSE RootLDNode_new(self.n_entries_root, cte.n_entries_per_l1page,
                         get_ld_subtree(self, 2, cte),
                         get_root(self.rigthmost_subtree[1], cte))

\* BSTreeMeta::get_root
BSTreeMeta_get_root(meta) == get_root(meta.layout, meta.constants)

RECURSIVE byte_size(_, _)

\* A byte size that counts, for the two root shapes, one sub-tree (one L1
\* page) per entry plus one, as L1Node and LDNode do, besides the right spine.
byte_size_like_inner(node, entry_byte_size) ==
  CASE node.kind = "L1Leaf" ->
         node.n_elems * entry_byte_size
    [] node.kind = "L1Node" ->
         node.n_elems * entry_byte_size
           + (node.n_elems + 1) * byte_size(SubTreeOf(node), entry_byte_size)
    [] node.kind = "LDNode" ->
         node.n_elems * entry_byte_size
           + (node.n_elems + 1) * node.n_l1page_elems * entry_byte_size
           + (node.n_elems + 1) * (node.n_l1page_elems + 1)
               * byte_size(SubTreeOf(node), entry_byte_size)
    [] node.kind = "RootL1Node" ->
         node.n_elems * entry_byte_size
           + (node.n_elems + 1) * byte_size(SubTreeOf(node), entry_byte_size)
           + byte_size(RightmostOf(node), entry_byte_size)
    [] node.kind = "RootLDNode" ->
         node.n_elems * entry_byte_size
           + (node.n_elems + 1) * node.n_l1page_elems * entry_byte_size
           + (node.n_elems + 1) * (node.n_l1page_elems + 1)
               * byte_size(SubTreeOf(node), entry_byte_size)
           + byte_size(RightmostOf(node), entry_byte_size)
    [] OTHER -> 0

\* HasByteSize::byte_size for the five node shapes
byte_size(node, entry_byte_size) ==
  CASE node.kind = "L1Leaf" ->
         node.n_elems * entry_byte_size
    [] node.kind = "L1Node" ->
         node.n_elems * entry_byte_size
           + (node.n_elems + 1) * byte_size(SubTreeOf(node), entry_byte_size)
    [] node.kind = "LDNode" ->
         node.n_elems * entry_byte_size
           + (node.n_elems + 1) * node.n_l1page_elems * entry_byte_size
           + (node.n_elems + 1) * (node.n_l1page_elems + 1)
               * byte_size(SubTreeOf(node), entry_byte_size)
    [] node.kind = "RootL1Node" ->
         node.n_elems * entry_byte_size
           + node.n_elems * byte_size(SubTreeOf(node), entry_byte_size)
           + byte_size(RightmostOf(node), entry_byte_size)
    [] node.kind = "RootLDNode" ->
         (node.n_elems + node.n_elems * node.n_l1page_elems) * entry_byte_size
           + (node.n_elems * (node.n_l1page_elems + 1))
               * byte_size(SubTreeOf(node), entry_byte_size)
           + byte_size(RightmostOf(node), entry_byte_size)
    [] OTHER -> 0

\* The layout nested in a layout, itself included (the right spine).
RECURSIVE SpineLayouts(_)
SpineLayouts(layout) ==
  IF IsSome(layout.rigthmost_subtree)
  THEN <<layout>> \o SpineLayouts(layout.rigthmost_subtree[1])
  ELSE <<layout>>

\* -------------------------------------------------------------------- write
\* The file is created by set_len, so a slot no write reached reads as zeros.
ZeroEntry == Entry(0, 0)
Pad(buf, n) == buf \o [i \in 1..(n - Len(buf)) |-> ZeroEntry]

\* Result<T, Error> of a write, together with the bytes of `dest` after it.
\* status: "ok" = Ok(it), "err" = Err("Iterator depleted!"), "panic".
WriteResult(status, it, buf) == [status |-> status, it |-> it, buf |-> buf]

RECURSIVE write(_, _, _, _)
RECURSIVE write_loop_subtree(_, _, _, _)
RECURSIVE write_l1page(_, _, _, _, _)
RECURSIVE write_loop_l1page(_, _, _, _)

\* write_loop_subtree with the two statements of the loop body swapped: the
\* separator is taken from the stream before the sub-tree on its left.
write_loop_subtree_separator_first(n, it, sub_tree, e) ==
  IF n = 0
  THEN [status |-> "ok", it |-> it, l1 |-> << >>, st |-> << >>]
  ELSE IF it = << >>
  THEN [status |-> "err", it |-> << >>, l1 |-> << >>, st |-> << >>]
  ELSE Bind(write(sub_tree, Tail(it), byte_size(sub_tree, e), e), LAMBDA w :
         IF w.status # "ok"
         THEN [status |-> w.status, it |-> w.it, l1 |-> << Head(it) >>,
               st |-> w.buf]
         ELSE Bind(write_loop_subtree(n - 1, w.it, sub_tree, e),
                   LAMBDA rest :
                     [ status |-> rest.status, it |-> rest.it,
                       l1 |-> << Head(it) >> \o rest.l1,
                       st |-> w.buf \o rest.st ]))

\* `for _ in 0..n { it = sub_tree.write(it, curr_buff)?; it.next()?.write(l1) }`
\* of RootL1Node::write and write_l1page.  l1: the separators written,
\* st: the bytes of the sub-tree buffers written.
write_loop_subtree(n, it, sub_tree, e) ==
  IF n = 0
  THEN [status |-> "ok", it |-> it, l1 |-> << >>, st |-> << >>]
  ELSE Bind(write(sub_tree, it, byte_size(sub_tree, e), e), LAMBDA w :
         IF w.status # "ok"
         THEN [status |-> w.status, it |-> w.it, l1 |-> << >>, st |-> w.buf]
         ELSE IF w.it = << >>
         THEN [status |-> "err", it |-> << >>, l1 |-> << >>, st |-> w.buf]
         ELSE Bind(write_loop_subtree(n - 1, Tail(w.it), sub_tree, e),
                   LAMBDA rest :
                     [ status |-> rest.status, it |-> rest.it,
                       l1 |-> << Head(w.it) >> \o rest.l1,
                       st |-> w.buf \o rest.st ]))

\* What write_l1page leaves: the status, the iterator, and the two buffers
\* (zeros where nothing was written).
L1PageWritten(status, it, l1, l1_slots, st, st_slots) ==
  [status |-> status, it |-> it, l1 |-> Pad(l1, l1_slots), st |-> Pad(st, st_slots)]

\* fn write_l1page
write_l1page(it, l1_len, sub_tree, subtree_len, e) ==
  LET subtree_byte_size == byte_size(sub_tree, e)
      n_l1 == l1_len \div e
      st_slots == subtree_len \div e
  IN IF l1_len = 0
     THEN L1PageWritten("panic", it, << >>, n_l1, << >>, st_slots)
     ELSE IF subtree_len # (n_l1 + 1) * subtree_byte_size
     THEN L1PageWritten("panic", it, << >>, n_l1, << >>, st_slots)
     ELSE Bind(write_loop_subtree(n_l1, it, sub_tree, e), LAMBDA lp :
            IF lp.status # "ok"
            THEN L1PageWritten(lp.status, lp.it, lp.l1, n_l1, lp.st, st_slots)
            ELSE Bind(write(sub_tree, lp.it,
                            subtree_len - n_l1 * subtree_byte_size, e),
                      LAMBDA last :
                        L1PageWritten(last.status, last.it, lp.l1, n_l1,
                                      lp.st \o last.buf, st_slots)))

\* `for _ in 0..n_elems { it = write_l1page(..)?; it.next()?.write(ld) }`
\* of LDNode::write and RootLDNode::write.
write_loop_l1page(n, it, node, e) ==
  LET l1page_byte_size == node.n_l1page_elems * e
      subtree_group_byte_size ==
        (node.n_l1page_elems + 1) * byte_size(SubTreeOf(node), e)
  IN IF n = 0
     THEN [status |-> "ok", it |-> it, ld |-> << >>, l1 |-> << >>, st |-> << >>]
     ELSE Bind(write_l1page(it, l1page_byte_size, SubTreeOf(node),
                            subtree_group_byte_size, e), LAMBDA w :
            IF w.status # "ok"
            THEN [ status |-> w.status, it |-> w.it, ld |-> << >>,
                   l1 |-> w.l1, st |-> w.st ]
            ELSE IF w.it = << >>
            THEN [ status |-> "err", it |-> << >>, ld |-> << >>,
                   l1 |-> w.l1, st |-> w.st ]
            ELSE Bind(write_loop_l1page(n - 1, Tail(w.it), node, e),
                      LAMBDA rest :
                        [ status |-> rest.status, it |-> rest.it,
                          ld |-> << Head(w.it) >> \o rest.ld,
                          l1 |-> w.l1 \o rest.l1,
                          st |-> w.st \o rest.st ]))

\* SubTreeW::write for the five node shapes (and the enum dispatch of Root,
\* SubTree and LDSubTree).  dest_len is dest.len() in bytes.
write(node, it, dest_len, e) ==
  LET n == node.n_elems
      slots == dest_len \div e
  IN IF node.kind = "Panic" \/ byte_size(node, e) # dest_len
     THEN WriteResult("panic", it, Pad(<< >>, slots))
     ELSE CASE node.kind = "L1Leaf" ->
            IF Len(it) >= n
            THEN WriteResult("ok", SubSeq(it, n + 1, Len(it)), SubSeq(it, 1, n))
            ELSE WriteResult("err", << >>, Pad(it, slots))
       [] node.kind = "L1Node" ->
            Bind(write_l1page(it, n * e, SubTreeOf(node), dest_len - n * e, e),
                 LAMBDA w : WriteResult(w.status, w.it, w.l1 \o w.st))
       [] node.kind = "LDNode" ->
            LET l1page_byte_size == node.n_l1page_elems * e
                subtree_group_byte_size ==
                  (node.n_l1page_elems + 1) * byte_size(SubTreeOf(node), e)
                ld_slots == n
                l1_slots == (n + 1) * node.n_l1page_elems
                st_slots == slots - ld_slots - l1_slots
                done(status, w_it, ld, l1, st) ==
                  WriteResult(status, w_it,
                    Pad(ld, ld_slots) \o Pad(l1, l1_slots) \o Pad(st, st_slots))
            IN Bind(write_loop_l1page(n, it, node, e), LAMBDA lp :
                 IF lp.status # "ok"
                 THEN done(lp.status, lp.it, lp.ld, lp.l1, lp.st)
                 ELSE Bind(write_l1page(lp.it, l1page_byte_size, SubTreeOf(node),
                                        subtree_group_byte_size, e),
                           LAMBDA last :
                             done(last.status, last.it, lp.ld,
                                  lp.l1 \o last.l1, lp.st \o last.st)))
       [] node.kind = "RootL1Node" ->
            LET subtree_byte_size == byte_size(SubTreeOf(node), e)
                st_slots == (n * subtree_byte_size) \div e
                r_len == dest_len - n * e - n * subtree_byte_size
                done(status, w_it, l1, st, r) ==
                  WriteResult(status, w_it,
                    Pad(l1, n) \o Pad(st, st_slots) \o Pad(r, r_len \div e))
            IN Bind(write_loop_subtree(n, it, SubTreeOf(node), e), LAMBDA lp :
                 IF lp.status # "ok"
                 THEN done(lp.status, lp.it, lp.l1, lp.st, << >>)
                 ELSE Bind(write(RightmostOf(node), lp.it, r_len, e),
                           LAMBDA last :
                             done(last.status, last.it, lp.l1, lp.st, last.buf)))
       [] node.kind = "RootLDNode" ->
            LET subtree_group_byte_size ==
                  (node.n_l1page_elems + 1) * byte_size(SubTreeOf(node), e)
                l1_slots == n * node.n_l1page_elems
                st_slots == (n * subtree_group_byte_size) \div e
                r_len == dest_len - (n + l1_slots) * e
                           - n * subtree_group_byte_size
                done(status, w_it, ld, l1, st, r) ==
                  WriteResult(status, w_it,
                    Pad(ld, n) \o Pad(l1, l1_slots) \o Pad(st, st_slots)
                      \o Pad(r, r_len \div e))
            IN Bind(write_loop_l1page(n, it, node, e), LAMBDA lp :
                 IF lp.status # "ok"
                 THEN done(lp.status, lp.it, lp.ld, lp.l1, lp.st, << >>)
                 ELSE Bind(write(RightmostOf(node), lp.it, r_len, e),
                           LAMBDA last :
                             done(last.status, last.it, lp.ld, lp.l1, lp.st,
                                  last.buf)))

\* --------------------------------------------------------------- byte slices
\* buf.len()
ByteLen(buf, e) == Len(buf) * e
\* &buf[from..to] is in range (otherwise the slice expression panics)
SliceFits(buf, from, to, e) == from <= to /\ to <= ByteLen(buf, e)
\* &buf[from..to]
Slice(buf, from, to, e) == SubSeq(buf, from \div e + 1, to \div e)
\* &buf[from..], the second half of buf.split_at(from)
SliceFrom(buf, from, e) == SubSeq(buf, from \div e + 1, Len(buf))

\* --------------------------------------------------------------- RawEntries
\* RawEntries::get_val(index) / get_entry(index): a read past the end of the
\* cursor is an io::Error.
RawEntries_in_range(entries, index) == index >= 0 /\ index < Len(entries)
RawEntries_get_entry(entries, index) == entries[index + 1]
RawEntries_get_val(entries, index) == entries[index + 1].val

RECURSIVE binary_search_loop(_, _, _, _)
\* the `while size > 1` loop of RawEntries::binary_search; yields base
binary_search_loop(entries, val, size, base) ==
  IF size > 1
  THEN LET half == size \div 2
           mid == base + half
           cur_val == RawEntries_get_val(entries, mid)
       IN binary_search_loop(entries, val, size - half,
                             IF cur_val > val THEN base ELSE mid)
  ELSE base

\* A binary search that reports Err(base) even when the entry at base is
\* smaller than the value: the descent then takes the child to the left of the
\* one holding the value.
RawEntries_binary_search_no_step(entries, val) ==
  LET base == binary_search_loop(entries, val, Len(entries), 0)
      v == RawEntries_get_val(entries, base)
  IN IF v = val THEN [found |-> TRUE, i |-> base]
     ELSE [found |-> FALSE, i |-> base]

\* RawEntries::binary_search: Ok(i) is [found |-> TRUE, i |-> i],
\* Err(i) is [found |-> FALSE, i |-> i].  Called on a non-empty buffer only
\* (RawEntries::new asserts it).
RawEntries_binary_search(entries, val) ==
  LET base == binary_search_loop(entries, val, Len(entries), 0)
      v == RawEntries_get_val(entries, base)
  IN IF v = val THEN [found |-> TRUE, i |-> base]
     ELSE [found |-> FALSE, i |-> base + (IF v < val THEN 1 ELSE 0)]

\* ---------------------------------------------------------------------- get
\* Result<Option<Entry>, Error> of a get: status "ok" with entry = None or
\* Some(e), or status "panic".  dbg: a debug build would have panicked.
GetResult(status, entry, dbg) == [status |-> status, entry |-> entry, dbg |-> dbg]
GetPanic == GetResult("panic", None, TRUE)

RECURSIVE get(_, _, _, _)

\* fn get_l1page
get_l1page(val, l1_buff, sub_tree, subtree_buff, e) ==
  LET subtree_byte_size == byte_size(sub_tree, e)
      n_l1 == ByteLen(l1_buff, e) \div e
      r == RawEntries_binary_search(l1_buff, val)
      from == r.i * subtree_byte_size
      to == from + subtree_byte_size
  IN IF l1_buff = << >> THEN GetPanic
     ELSE IF ByteLen(subtree_buff, e) # (n_l1 + 1) * subtree_byte_size THEN GetPanic
     ELSE IF r.found THEN GetResult("ok", Some(RawEntries_get_entry(l1_buff, r.i)), FALSE)
     ELSE IF ~SliceFits(subtree_buff, from, to, e) THEN GetPanic
     ELSE get(sub_tree, val, Slice(subtree_buff, from, to, e), e)

\* SubTreeR::get for the five node shapes
get(node, val, raw_entries, e) ==
  LET n == node.n_elems
      size_differs == byte_size(node, e) # ByteLen(raw_entries, e)
      debug(res) == [res EXCEPT !.dbg = @ \/ size_differs]
  IN CASE node.kind = "L1Leaf" ->
       IF raw_entries = << >> THEN GetPanic
       ELSE LET r == RawEntries_binary_search(raw_entries, val)
            IN GetResult("ok",
                 IF r.found THEN Some(RawEntries_get_entry(raw_entries, r.i))
                 ELSE None, size_differs)
     [] node.kind = "L1Node" ->
       IF ~SliceFits(raw_entries, 0, n * e, e) THEN GetPanic
       ELSE debug(get_l1page(val, Slice(raw_entries, 0, n * e, e),
                             SubTreeOf(node), SliceFrom(raw_entries, n * e, e), e))
     [] node.kind = "LDNode" ->
       LET l1page_byte_size == node.n_l1page_elems * e
           subtree_group_byte_size ==
             (node.n_l1page_elems + 1) * byte_size(SubTreeOf(node), e)
           ld_buff == Slice(raw_entries, 0, n * e, e)
           st_buff0 == SliceFrom(raw_entries, n * e, e)
           r == RawEntries_binary_search(ld_buff, val)
           l1_buff == Slice(st_buff0, 0, (n + 1) * l1page_byte_size, e)
           st_buff == SliceFrom(st_buff0, (n + 1) * l1page_byte_size, e)
           from_l1 == r.i * l1page_byte_size
           to_l1 == from_l1 + l1page_byte_size
           from_st == r.i * subtree_group_byte_size
           to_st == from_st + subtree_group_byte_size
       IN IF size_differs THEN GetPanic
          ELSE IF ld_buff = << >> THEN GetPanic
          ELSE IF r.found
          THEN GetResult("ok", Some(RawEntries_get_entry(ld_buff, r.i)), FALSE)
          ELSE IF ~SliceFits(st_buff0, 0, (n + 1) * l1page_byte_size, e)
                  \/ ~SliceFits(l1_buff, from_l1, to_l1, e)
                  \/ ~SliceFits(st_buff, from_st, to_st, e)
          THEN GetPanic
          ELSE get_l1page(val, Slice(l1_buff, from_l1, to_l1, e), SubTreeOf(node),
                          Slice(st_buff, from_st, to_st, e), e)
     [] node.kind = "RootL1Node" ->
       LET subtree_byte_size == byte_size(SubTreeOf(node), e)
           l1_buff == Slice(raw_entries, 0, n * e, e)
           r_buff == SliceFrom(raw_entries, n * e, e)
           r == RawEntries_binary_search(l1_buff, val)
           from == r.i * subtree_byte_size
           to == from + subtree_byte_size
       IN IF size_differs THEN GetPanic
          ELSE IF l1_buff = << >> THEN GetPanic
          ELSE IF r.found
          THEN GetResult("ok", Some(RawEntries_get_entry(l1_buff, r.i)), FALSE)
          ELSE IF r.i = n
          THEN IF ~SliceFits(r_buff, from, ByteLen(r_buff, e), e) THEN GetPanic
               ELSE get(RightmostOf(node), val, SliceFrom(r_buff, from, e), e)
          ELSE IF ~SliceFits(r_buff, from, to, e) THEN GetPanic
               ELSE get(SubTreeOf(node), val, Slice(r_buff, from, to, e), e)
     [] node.kind = "RootLDNode" ->
       LET l1page_byte_size == node.n_l1page_elems * e
           subtree_group_byte_size ==
             (node.n_l1page_elems + 1) * byte_size(SubTreeOf(node), e)
           ld_buff == Slice(raw_entries, 0, n * e, e)
           r_buff == SliceFrom(raw_entries, n * e, e)
           r == RawEntries_binary_search(ld_buff, val)
           limit == n * (l1page_byte_size + subtree_group_byte_size)
           rr_buff == SliceFrom(r_buff, limit, e)
           l1_buff == Slice(r_buff, 0, n * l1page_byte_size, e)
           st_buff == SliceFrom(r_buff, n * l1page_byte_size, e)
           from_l1 == r.i * l1page_byte_size
           to_l1 == from_l1 + l1page_byte_size
           from_st == r.i * subtree_group_byte_size
           to_st == from_st + subtree_group_byte_size
       IN IF size_differs THEN GetPanic
          ELSE IF ld_buff = << >> THEN GetPanic
          ELSE IF r.found
          THEN GetResult("ok", Some(RawEntries_get_entry(ld_buff, r.i)), FALSE)
          ELSE IF r.i = n
          THEN IF ~SliceFits(r_buff, limit, ByteLen(r_buff, e), e)
                  \/ ByteLen(rr_buff, e) # byte_size(RightmostOf(node), e)
               THEN GetPanic
               ELSE get(RightmostOf(node), val, rr_buff, e)
          ELSE IF ~SliceFits(r_buff, 0, n * l1page_byte_size, e)
                  \/ ~SliceFits(l1_buff, from_l1, to_l1, e)
                  \/ ~SliceFits(st_buff, from_st, to_st, e)
          THEN GetPanic
          ELSE get_l1page(val, Slice(l1_buff, from_l1, to_l1, e), SubTreeOf(node),
                          Slice(st_buff, from_st, to_st, e), e)
     [] OTHER -> GetPanic

\* ----------------------------------------------------------------- visitors
\* The distance closure of the unsigned value types:
\* |a, b| if *a > *b { *a - *b } else { *b - *a }
dist(a, b) == IF a > b THEN a - b ELSE b - a

\* Neigbhour { distance, neighbour }
Neigbhour(distance, neighbour) == [distance |-> distance, neighbour |-> neighbour]

\* BinaryHeap<Neigbhour>: a max-heap on the distance.  It is kept as the
\* sequence of its elements by non-increasing distance (peek = the first);
\* of two neighbours with the same distance the one pushed first leaves first.
BinaryHeap_push(heap, x) ==
  LET before == SelectSeq(heap, LAMBDA y : y.distance >= x.distance)
      after == SelectSeq(heap, LAMBDA y : y.distance < x.distance)
  IN before \o << x >> \o after
BinaryHeap_pop(heap) == Tail(heap)
BinaryHeap_peek(heap) == Head(heap)
\* BinaryHeap::into_sorted_vec: by non-decreasing distance
RECURSIVE Reverse(_)
Reverse(s) == IF s = << >> THEN << >> ELSE Reverse(Tail(s)) \o << Head(s) >>
BinaryHeap_into_sorted_vec(heap) == Reverse(heap)

\* One record shape for the seven visitors; `kind` tells which struct it is,
\* and a field a struct does not have keeps its initial value.  panic: the
\* visitor (or the traversal carrying it) panicked; err: the traversal
\* returned an io::Error; dbg: a debug build would have panicked
\* (debug_assert!); late: visit_le_center or visit_he_center was called
\* while the visitor's flag of that direction was false.
VisitorBase ==
  [ kind |-> "", center |-> 0, hi |-> 0, limit |-> 0, k |-> 0, d_max |-> None,
    n_entries |-> 0, entries |-> << >>, entry |-> None, nn |-> None,
    knn |-> << >>, desc |-> TRUE, asc |-> TRUE, panic |-> FALSE, err |-> FALSE,
    dbg |-> FALSE, late |-> FALSE ]

VisitorExact_new(center) ==
  [VisitorBase EXCEPT !.kind = "Exact", !.center = center,
                      !.desc = FALSE, !.asc = FALSE]
VisitorAllCount_new(center, limit) ==
  [VisitorBase EXCEPT !.kind = "AllCount", !.center = center, !.limit = limit]
VisitorAll_new(center, limit) ==
  [VisitorBase EXCEPT !.kind = "All", !.center = center, !.limit = limit]
VisitorNn_new(center, d_max) ==
  [VisitorBase EXCEPT !.kind = "Nn", !.center = center, !.d_max = d_max]
VisitorKnn_new(center, k, d_max) ==
  [VisitorBase EXCEPT !.kind = "Knn", !.center = center, !.k = k, !.d_max = d_max]
VisitorRangeCount_new(lo, hi, limit) ==
  [VisitorBase EXCEPT !.kind = "RangeCount", !.center = lo, !.hi = hi, !.limit = limit]
VisitorRange_new(lo, hi, limit) ==
  [VisitorBase EXCEPT !.kind = "Range", !.center = lo, !.hi = hi, !.limit = limit]

\* Visitor::center, Visitor::visit_desc, Visitor::visit_asc
Visitor_center(v) == v.center
Visitor_visit_desc(v) == IF v.kind = "Exact" THEN FALSE ELSE v.desc
Visitor_visit_asc(v) == IF v.kind = "Exact" THEN FALSE ELSE v.asc

\* The number of results a visitor holds so far.
Visitor_count(v) ==
  IF v.kind \in {"All", "Range"} THEN Len(v.entries) ELSE v.n_entries
\* `self.n_entries += 1` / `self.entries.push(entry)`
Visitor_add(v, entry) ==
  IF v.kind \in {"All", "Range"}
  THEN [v EXCEPT !.entries = Append(@, entry)]
  ELSE [v EXCEPT !.n_entries = @ + 1]

\* Visitor::visit_center
Visitor_visit_center(v0, entry) ==
  LET v == [v0 EXCEPT !.dbg = @ \/ entry.val # v0.center]
  IN CASE v.kind = "Exact" -> [v EXCEPT !.entry = Some(entry)]
       [] v.kind \in {"AllCount", "All", "RangeCount", "Range"} ->
            Visitor_add(v, entry)
       [] v.kind = "Nn" ->
            [v EXCEPT !.nn = Some(Neigbhour(dist(v.center, entry.val), entry)),
                      !.desc = FALSE, !.asc = FALSE]
       [] v.kind = "Knn" ->
            IF v.k > 0
            THEN [v EXCEPT !.knn = BinaryHeap_push(@,
                                     Neigbhour(dist(v.center, entry.val), entry))]
            ELSE [v EXCEPT !.desc = FALSE, !.asc = FALSE]

\* visit_le_center (le = TRUE) and visit_he_center (le = FALSE): the two
\* bodies differ in the flag they clear and, for the range visitors, in the
\* bound they test.
Visitor_stop(v, le) == IF le THEN [v EXCEPT !.desc = FALSE] ELSE [v EXCEPT !.asc = FALSE]

Visitor_visit_side(v0, entry, le) ==
  LET v == [v0 EXCEPT !.late = @ \/ ~(IF le THEN Visitor_visit_desc(v0)
                                              ELSE Visitor_visit_asc(v0))]
      distance == dist(v.center, entry.val)
      over_d_max == IsSome(v.d_max) /\ distance > v.d_max[1]
  IN CASE v.kind = "Exact" -> [v EXCEPT !.panic = TRUE]
       [] v.kind \in {"AllCount", "All"} ->
            IF entry.val = v.center /\ Visitor_count(v) < v.limit
            THEN Visitor_add(v, entry)
            ELSE Visitor_stop(v, le)
       [] v.kind \in {"RangeCount", "Range"} ->
            IF (IF le THEN entry.val < v.center ELSE entry.val > v.hi)
               \/ Visitor_count(v) >= v.limit
            THEN Visitor_stop(v, le)
            ELSE Visitor_add(v, entry)
       [] v.kind = "Nn" ->
            IF over_d_max THEN Visitor_stop(v, le)
            ELSE Visitor_stop(
                   IF ~IsSome(v.nn) \/ distance < v.nn[1].distance
                   THEN [v EXCEPT !.nn = Some(Neigbhour(distance, entry))]
                   ELSE v, le)
       [] v.kind = "Knn" ->
            IF over_d_max THEN Visitor_stop(v, le)
            ELSE IF Len(v.knn) < v.k
            THEN LET pushed == BinaryHeap_push(v.knn, Neigbhour(distance, entry))
                 IN [v EXCEPT !.knn = IF Len(pushed) > v.k
                                      THEN BinaryHeap_pop(pushed) ELSE pushed]
            ELSE IF v.knn = << >>
            THEN [v EXCEPT !.panic = TRUE]
            ELSE IF distance < BinaryHeap_peek(v.knn).distance
            THEN LET pushed == BinaryHeap_push(v.knn, Neigbhour(distance, entry))
                 IN [v EXCEPT !.knn = IF Len(pushed) > v.k
                                      THEN BinaryHeap_pop(pushed) ELSE pushed]
            ELSE Visitor_stop(v, le)

Visitor_visit_le_center(v, entry) == Visitor_visit_side(v, entry, TRUE)
Visitor_visit_he_center(v, entry) == Visitor_visit_side(v, entry, FALSE)

\* ------------------------------------------------------------------- visit
\* Outcomes of a traversal that end it: a panic, or `?` on an io::Error.
Failed(v) == v.panic \/ v.err
VPanic(v) == [v EXCEPT !.panic = TRUE]
VErr(v) == [v EXCEPT !.err = TRUE]
\* debug_assert!(cond)
DebugAssert(v, cond) == [v EXCEPT !.dbg = @ \/ ~cond]

\* A call of a SubTreeR method on a node: the implementation is chosen by
\* the method and, in it, by the shape of the node (the impl blocks below).
RECURSIVE SubTreeR_dispatch(_, _, _, _, _)
\* SubTreeR::visit, SubTreeR::visit_desc, SubTreeR::visit_asc
visit(node, v, raw_entries, e) ==
  SubTreeR_dispatch("visit", node, v, raw_entries, e)
visit_desc(node, v, raw_entries, e) ==
  SubTreeR_dispatch("visit_desc", node, v, raw_entries, e)
visit_asc(node, v, raw_entries, e) ==
  SubTreeR_dispatch("visit_asc", node, v, raw_entries, e)

RECURSIVE visit_l1page(_, _, _, _, _)
RECURSIVE visit_desc_l1page(_, _, _, _, _)
RECURSIVE visit_asc_l1page(_, _, _, _, _)

\* ---- L1Leaf
RECURSIVE L1Leaf_visit_desc_loop(_, _, _)
\* `for i in (0..self.n_elems).rev()` of L1Leaf::visit_desc
L1Leaf_visit_desc_loop(v, entries, i) ==
  IF i < 0 THEN v
  ELSE IF ~RawEntries_in_range(entries, i) THEN VErr(v)
  ELSE Bind(Visitor_visit_le_center(v, RawEntries_get_entry(entries, i)),
            LAMBDA v1 :
         IF Failed(v1) \/ ~Visitor_visit_desc(v1) THEN v1
         ELSE L1Leaf_visit_desc_loop(v1, entries, i - 1))

RECURSIVE L1Leaf_visit_asc_loop(_, _, _, _)
\* `for i in 0..self.n_elems` of L1Leaf::visit_asc
L1Leaf_visit_asc_loop(v, entries, i, n_elems) ==
  IF ~(i < n_elems) THEN v
  ELSE IF ~RawEntries_in_range(entries, i) THEN VErr(v)
  ELSE Bind(Visitor_visit_he_center(v, RawEntries_get_entry(entries, i)),
            LAMBDA v1 :
         IF Failed(v1) \/ ~Visitor_visit_asc(v1) THEN v1
         ELSE L1Leaf_visit_asc_loop(v1, entries, i + 1, n_elems))

RECURSIVE L1Leaf_visit_left(_, _, _)
\* `while l >= 0 && visitor.visit_desc()` of L1Leaf::visit
L1Leaf_visit_left(v, entries, l) ==
  IF Failed(v) \/ ~(l >= 0 /\ Visitor_visit_desc(v)) THEN v
  ELSE IF ~RawEntries_in_range(entries, l) THEN VErr(v)
  ELSE L1Leaf_visit_left(
         Visitor_visit_le_center(v, RawEntries_get_entry(entries, l)),
         entries, l - 1)

RECURSIVE L1Leaf_visit_right(_, _, _, _)
\* `while r < self.n_elems && visitor.visit_asc()` of L1Leaf::visit
L1Leaf_visit_right(v, entries, r, n_elems) ==
  IF Failed(v) \/ ~(r < n_elems /\ Visitor_visit_asc(v)) THEN v
  ELSE IF ~RawEntries_in_range(entries, r) THEN VErr(v)
  ELSE L1Leaf_visit_right(
         Visitor_visit_he_center(v, RawEntries_get_entry(entries, r)),
         entries, r + 1, n_elems)

\* L1Leaf::visit_desc
L1Leaf_visit_desc(node, v0, raw_entries, e) ==
  Bind(DebugAssert(
         DebugAssert(v0, byte_size(node, e) = ByteLen(raw_entries, e)),
         Visitor_visit_desc(v0)),
       LAMBDA v :
    IF raw_entries = << >> THEN VPanic(v)
    ELSE L1Leaf_visit_desc_loop(v, raw_entries, node.n_elems - 1))

\* L1Leaf::visit_asc
L1Leaf_visit_asc(node, v0, raw_entries, e) ==
  Bind(DebugAssert(
         DebugAssert(v0, byte_size(node, e) = ByteLen(raw_entries, e)),
         Visitor_visit_asc(v0)),
       LAMBDA v :
    IF raw_entries = << >> THEN VPanic(v)
    ELSE L1Leaf_visit_asc_loop(v, raw_entries, 0, node.n_elems))

\* L1Leaf::visit
L1Leaf_visit(node, v0, raw_entries, e) ==
  Bind2(DebugAssert(v0, byte_size(node, e) = ByteLen(raw_entries, e)),
        RawEntries_binary_search(raw_entries, Visitor_center(v0)),
        LAMBDA v, r :
    LET v1 == IF r.found
              THEN Visitor_visit_center(v, RawEntries_get_entry(raw_entries, r.i))
              ELSE v
        right == IF r.found THEN r.i + 1 ELSE r.i
    IN IF raw_entries = << >> THEN VPanic(v)
       ELSE L1Leaf_visit_right(L1Leaf_visit_left(v1, raw_entries, r.i - 1),
                               raw_entries, right, node.n_elems))

\* ---- L1 pages (the bodies shared by L1Node, LDNode and RootLDNode)
\* &subtree_buff[i * size .. i * size + size] and whether it is in range
ChildFits(buff, i, size, e) == SliceFits(buff, i * size, i * size + size, e)
Child(buff, i, size, e) == Slice(buff, i * size, i * size + size, e)

RECURSIVE visit_l1page_left(_, _, _, _, _, _)
\* `while l >= 0 { ... }` of visit_l1page
visit_l1page_left(v, l, l1_buff, sub_tree, subtree_buff, e) ==
  IF Failed(v) \/ ~(l >= 0) \/ ~Visitor_visit_desc(v) THEN v
  ELSE IF ~RawEntries_in_range(l1_buff, l) THEN VErr(v)
  ELSE Bind2(byte_size(sub_tree, e),
             Visitor_visit_le_center(v, RawEntries_get_entry(l1_buff, l)),
             LAMBDA size, v1 :
         IF Failed(v1) \/ ~Visitor_visit_desc(v1) THEN v1
         ELSE IF ~ChildFits(subtree_buff, l, size, e) THEN VPanic(v1)
         ELSE visit_l1page_left(
                visit_desc(sub_tree, v1, Child(subtree_buff, l, size, e), e),
                l - 1, l1_buff, sub_tree, subtree_buff, e))

RECURSIVE visit_l1page_right(_, _, _, _, _, _)
\* `while r < n_l1 { ... }` of visit_l1page
visit_l1page_right(v, r, l1_buff, sub_tree, subtree_buff, e) ==
  LET n_l1 == ByteLen(l1_buff, e) \div e
  IN IF Failed(v) \/ ~(r < n_l1) \/ ~Visitor_visit_asc(v) THEN v
     ELSE IF ~RawEntries_in_range(l1_buff, r) THEN VErr(v)
     ELSE Bind2(byte_size(sub_tree, e),
                Visitor_visit_he_center(v, RawEntries_get_entry(l1_buff, r)),
                LAMBDA size, v1 :
            IF Failed(v1) \/ ~Visitor_visit_asc(v1) THEN v1
            ELSE IF ~ChildFits(subtree_buff, r + 1, size, e) THEN VPanic(v1)
            ELSE visit_l1page_right(
                   visit_asc(sub_tree, v1, Child(subtree_buff, r + 1, size, e), e),
                   r + 1, l1_buff, sub_tree, subtree_buff, e))

\* fn visit_l1page
visit_l1page(v, l1_buff, sub_tree, subtree_buff, e) ==
  Bind2(byte_size(sub_tree, e),
        RawEntries_binary_search(l1_buff, Visitor_center(v)),
        LAMBDA size, r :
  LET n_l1 == ByteLen(l1_buff, e) \div e
      i == r.i
      \* Ok(i) => { visit_center; visit_desc child i; visit_asc child i + 1 }
      c3 == Bind(Visitor_visit_center(v, RawEntries_get_entry(l1_buff, i)),
                 LAMBDA c1 :
             Bind(IF ~Visitor_visit_desc(c1) THEN c1
                  ELSE IF ~ChildFits(subtree_buff, i, size, e) THEN VPanic(c1)
                  ELSE visit_desc(sub_tree, c1,
                                  Child(subtree_buff, i, size, e), e),
                  LAMBDA c2 :
               IF Failed(c2) \/ ~Visitor_visit_asc(c2) THEN c2
               ELSE IF ~ChildFits(subtree_buff, i + 1, size, e) THEN VPanic(c2)
               ELSE visit_asc(sub_tree, c2,
                              Child(subtree_buff, i + 1, size, e), e)))
      \* Err(i) => visit child i
      m1 == IF ~ChildFits(subtree_buff, i, size, e) THEN VPanic(v)
            ELSE visit(sub_tree, v, Child(subtree_buff, i, size, e), e)
      after == IF r.found THEN c3 ELSE m1
      right == IF r.found THEN i + 1 ELSE i
  IN IF l1_buff = << >> THEN VPanic(v)
     ELSE IF ByteLen(subtree_buff, e) # (n_l1 + 1) * size THEN VPanic(v)
     ELSE visit_l1page_right(
            visit_l1page_left(after, i - 1, l1_buff, sub_tree, subtree_buff, e),
            right, l1_buff, sub_tree, subtree_buff, e))

RECURSIVE visit_desc_l1page_loop(_, _, _, _, _, _)
\* `while i < n_l1 && visitor.visit_desc() { ... }` of visit_desc_l1page
visit_desc_l1page_loop(v, i, l1_buff, sub_tree, subtree_buff, e) ==
  LET n_l1 == ByteLen(l1_buff, e) \div e
  IN IF Failed(v) \/ ~(i < n_l1 /\ Visitor_visit_desc(v)) THEN v
     ELSE IF ~RawEntries_in_range(l1_buff, i) THEN VErr(v)
     ELSE Bind2(byte_size(sub_tree, e),
                Visitor_visit_le_center(v, RawEntries_get_entry(l1_buff, i)),
                LAMBDA size, v1 :
            IF Failed(v1) \/ ~Visitor_visit_desc(v1) THEN v1
            ELSE IF ~ChildFits(subtree_buff, i, size, e) THEN VPanic(v1)
            ELSE visit_desc_l1page_loop(
                   visit_desc(sub_tree, v1, Child(subtree_buff, i, size, e), e),
                   i + 1, l1_buff, sub_tree, subtree_buff, e))

\* fn visit_desc_l1page
visit_desc_l1page(v, l1_buff, sub_tree, subtree_buff, e) ==
  Bind2(byte_size(sub_tree, e), ByteLen(l1_buff, e) \div e,
        LAMBDA size, n_l1 :
    IF l1_buff = << >> THEN VPanic(v)
    ELSE IF ByteLen(subtree_buff, e) # (n_l1 + 1) * size THEN VPanic(v)
    ELSE visit_desc_l1page_loop(
           visit_desc(sub_tree, v, Child(subtree_buff, n_l1, size, e), e),
           0, l1_buff, sub_tree, subtree_buff, e))

RECURSIVE visit_asc_l1page_loop(_, _, _, _, _, _)
\* `while i < n_l1 { ... }` of visit_asc_l1page followed by `if i == n_l1`
visit_asc_l1page_loop(v, i, l1_buff, sub_tree, subtree_buff, e) ==
  Bind2(byte_size(sub_tree, e), ByteLen(l1_buff, e) \div e,
        LAMBDA size, n_l1 :
     IF Failed(v) THEN v
     ELSE IF ~ChildFits(subtree_buff, i, size, e) THEN VPanic(v)
     ELSE Bind(visit_asc(sub_tree, v, Child(subtree_buff, i, size, e), e),
               LAMBDA v1 :
            IF ~(i < n_l1) THEN v1
            ELSE IF Failed(v1) \/ ~Visitor_visit_asc(v1) THEN v1
            ELSE IF ~RawEntries_in_range(l1_buff, i) THEN VErr(v1)
            ELSE Bind(Visitor_visit_he_center(v1,
                        RawEntries_get_entry(l1_buff, i)),
                      LAMBDA v2 :
                   IF Failed(v2) \/ ~Visitor_visit_asc(v2) THEN v2
                   ELSE visit_asc_l1page_loop(v2, i + 1, l1_buff, sub_tree,
                                              subtree_buff, e))))

\* fn visit_asc_l1page
visit_asc_l1page(v, l1_buff, sub_tree, subtree_buff, e) ==
  LET size == byte_size(sub_tree, e)
      n_l1 == ByteLen(l1_buff, e) \div e
  IN IF l1_buff = << >> THEN VPanic(v)
     ELSE IF ByteLen(subtree_buff, e) # (n_l1 + 1) * size THEN VPanic(v)
     ELSE visit_asc_l1page_loop(v, 0, l1_buff, sub_tree, subtree_buff, e)

\* ---- LDNode
\* The i-th L1 page of an LD node and its group of sub-trees.
PageFits(node, l1_buff, st_buff, i, e) ==
  /\ ChildFits(l1_buff, i, node.n_l1page_elems * e, e)
  /\ ChildFits(st_buff, i,
               (node.n_l1page_elems + 1) * byte_size(SubTreeOf(node), e), e)
PageL1(node, l1_buff, i, e) == Child(l1_buff, i, node.n_l1page_elems * e, e)
PageSt(node, st_buff, i, e) ==
  Child(st_buff, i, (node.n_l1page_elems + 1) * byte_size(SubTreeOf(node), e), e)

\* visit_desc_l1page / visit_asc_l1page / visit_l1page on the i-th page
PageVisitDesc(node, v, l1_buff, st_buff, i, e) ==
  IF ~PageFits(node, l1_buff, st_buff, i, e) THEN VPanic(v)
  ELSE visit_desc_l1page(v, PageL1(node, l1_buff, i, e), SubTreeOf(node),
                         PageSt(node, st_buff, i, e), e)
PageVisitAsc(node, v, l1_buff, st_buff, i, e) ==
  IF ~PageFits(node, l1_buff, st_buff, i, e) THEN VPanic(v)
  ELSE visit_asc_l1page(v, PageL1(node, l1_buff, i, e), SubTreeOf(node),
                        PageSt(node, st_buff, i, e), e)
PageVisit(node, v, l1_buff, st_buff, i, e) ==
  IF ~PageFits(node, l1_buff, st_buff, i, e) THEN VPanic(v)
  ELSE visit_l1page(v, PageL1(node, l1_buff, i, e), SubTreeOf(node),
                    PageSt(node, st_buff, i, e), e)

RECURSIVE LDNode_visit_desc_loop(_, _, _, _, _, _)
\* `for i in (0..self.n_elems).rev()` of LDNode::visit_desc
LDNode_visit_desc_loop(node, v, l1_buff, st_buff, i, e) ==
  IF Failed(v) \/ i < 0 THEN v
  ELSE LDNode_visit_desc_loop(node,
         PageVisitDesc(node, v, l1_buff, st_buff, i, e),
         l1_buff, st_buff, i - 1, e)

RECURSIVE LDNode_visit_asc_loop(_, _, _, _, _, _)
\* `for i in 1..=self.n_elems` of LDNode::visit_asc
LDNode_visit_asc_loop(node, v, l1_buff, st_buff, i, e) ==
  IF Failed(v) \/ i > node.n_elems THEN v
  ELSE LDNode_visit_asc_loop(node,
         PageVisitAsc(node, v, l1_buff, st_buff, i, e),
         l1_buff, st_buff, i + 1, e)

RECURSIVE LDNode_visit_left(_, _, _, _, _, _, _)
\* `while l >= 0 { ... }` of LDNode::visit and of RootLDNode::visit
LDNode_visit_left(node, v, l, entries, l1_buff, st_buff, e) ==
  IF Failed(v) \/ ~(l >= 0) \/ ~Visitor_visit_desc(v) THEN v
  ELSE IF ~RawEntries_in_range(entries, l) THEN VErr(v)
  ELSE Bind(Visitor_visit_le_center(v, RawEntries_get_entry(entries, l)),
            LAMBDA v1 :
         IF Failed(v1) \/ ~Visitor_visit_desc(v1) THEN v1
         ELSE LDNode_visit_left(node,
                PageVisitDesc(node, v1, l1_buff, st_buff, l, e),
                l - 1, entries, l1_buff, st_buff, e))

RECURSIVE LDNode_visit_right(_, _, _, _, _, _, _)
\* `while r < self.n_elems { ... }` of LDNode::visit
LDNode_visit_right(node, v, r, entries, l1_buff, st_buff, e) ==
  IF Failed(v) \/ ~(r < node.n_elems) \/ ~Visitor_visit_asc(v) THEN v
  ELSE IF ~RawEntries_in_range(entries, r) THEN VErr(v)
  ELSE Bind(Visitor_visit_he_center(v, RawEntries_get_entry(entries, r)),
            LAMBDA v1 :
         IF Failed(v1) \/ ~Visitor_visit_asc(v1) THEN v1
         ELSE LDNode_visit_right(node,
                PageVisitAsc(node, v1, l1_buff, st_buff, r + 1, e),
                r + 1, entries, l1_buff, st_buff, e))

\* The buffers LDNode's visit functions split raw_entries into.
LDNode_l1_len(node, e) == (node.n_elems + 1) * node.n_l1page_elems * e
LDNode_splits(node, raw_entries, e) ==
  /\ SliceFits(raw_entries, 0, node.n_elems * e, e)
  /\ SliceFits(SliceFrom(raw_entries, node.n_elems * e, e), 0,
               LDNode_l1_len(node, e), e)
LDNode_ld_buff(node, raw_entries, e) == Slice(raw_entries, 0, node.n_elems * e, e)
LDNode_l1_buff(node, raw_entries, e) ==
  Slice(SliceFrom(raw_entries, node.n_elems * e, e), 0, LDNode_l1_len(node, e), e)
LDNode_st_buff(node, raw_entries, e) ==
  SliceFrom(SliceFrom(raw_entries, node.n_elems * e, e), LDNode_l1_len(node, e), e)

\* LDNode::visit_desc
LDNode_visit_desc(node, v, raw_entries, e) ==
  Bind2(LDNode_l1_buff(node, raw_entries, e),
        LDNode_st_buff(node, raw_entries, e),
        LAMBDA l1_buff, st_buff :
    IF byte_size(node, e) # ByteLen(raw_entries, e) THEN VPanic(v)
    ELSE IF ~LDNode_splits(node, raw_entries, e) THEN VPanic(v)
    ELSE LDNode_visit_desc_loop(node,
           PageVisitDesc(node, v, l1_buff, st_buff, node.n_elems, e),
           l1_buff, st_buff, node.n_elems - 1, e))

\* LDNode::visit_asc
LDNode_visit_asc(node, v, raw_entries, e) ==
  Bind2(LDNode_l1_buff(node, raw_entries, e),
        LDNode_st_buff(node, raw_entries, e),
        LAMBDA l1_buff, st_buff :
    IF byte_size(node, e) # ByteLen(raw_entries, e) THEN VPanic(v)
    ELSE IF ~LDNode_splits(node, raw_entries, e) THEN VPanic(v)
    ELSE LDNode_visit_asc_loop(node,
           PageVisitAsc(node, v, l1_buff, st_buff, 0, e),
           l1_buff, st_buff, 1, e))

\* LDNode::visit
LDNode_visit(node, v, raw_entries, e) ==
  Bind2(LDNode_ld_buff(node, raw_entries, e),
        LDNode_l1_buff(node, raw_entries, e),
        LAMBDA entries, l1_buff :
  Bind2(LDNode_st_buff(node, raw_entries, e),
        RawEntries_binary_search(entries, Visitor_center(v)),
        LAMBDA st_buff, r :
  LET i == r.i
      c3 == Bind(Visitor_visit_center(v, RawEntries_get_entry(entries, i)),
                 LAMBDA c1 :
             Bind(IF ~Visitor_visit_desc(c1) THEN c1
                  ELSE PageVisitDesc(node, c1, l1_buff, st_buff, i, e),
                  LAMBDA c2 :
               IF Failed(c2) \/ ~Visitor_visit_asc(c2) THEN c2
               ELSE PageVisitAsc(node, c2, l1_buff, st_buff, i + 1, e)))
      m1 == PageVisit(node, v, l1_buff, st_buff, i, e)
      after == IF r.found THEN c3 ELSE m1
      right == IF r.found THEN i + 1 ELSE i
  IN IF byte_size(node, e) # ByteLen(raw_entries, e) THEN VPanic(v)
     ELSE IF ~LDNode_splits(node, raw_entries, e) THEN VPanic(v)
     ELSE IF entries = << >> THEN VPanic(v)
     ELSE LDNode_visit_right(node,
            LDNode_visit_left(node, after, i - 1, entries, l1_buff, st_buff, e),
            right, entries, l1_buff, st_buff, e)))

\* ---- RootL1Node
RECURSIVE RootL1Node_visit_left(_, _, _, _, _, _)
\* `while l >= 0 { ... }` of RootL1Node::visit
RootL1Node_visit_left(node, v, l, l1_entries, r_buff, e) ==
  IF Failed(v) \/ ~(l >= 0) \/ ~Visitor_visit_desc(v) THEN v
  ELSE IF ~RawEntries_in_range(l1_entries, l) THEN VErr(v)
  ELSE Bind2(byte_size(SubTreeOf(node), e),
             Visitor_visit_le_center(v, RawEntries_get_entry(l1_entries, l)),
             LAMBDA size, v1 :
         IF Failed(v1) \/ ~Visitor_visit_desc(v1) THEN v1
         ELSE IF ~ChildFits(r_buff, l, size, e) THEN VPanic(v1)
         ELSE RootL1Node_visit_left(node,
                visit_desc(SubTreeOf(node), v1, Child(r_buff, l, size, e), e),
                l - 1, l1_entries, r_buff, e))

RECURSIVE RootL1Node_visit_right(_, _, _, _, _, _)
\* `while r < self.n_elems { ... }` of RootL1Node::visit; r1 is r after `r += 1`
RootL1Node_visit_right(node, v, r, l1_entries, r_buff, e) ==
  LET r1 == r + 1
  IN IF Failed(v) \/ ~(r < node.n_elems) \/ ~Visitor_visit_asc(v) THEN v
     ELSE IF ~RawEntries_in_range(l1_entries, r) THEN VErr(v)
     ELSE Bind2(byte_size(SubTreeOf(node), e),
                Visitor_visit_he_center(v, RawEntries_get_entry(l1_entries, r)),
                LAMBDA size, v1 :
            LET v2 == IF r1 < node.n_elems
                      THEN IF ~ChildFits(r_buff, r1 + 1, size, e) THEN VPanic(v1)
                           ELSE visit_asc(SubTreeOf(node), v1,
                                          Child(r_buff, r1 + 1, size, e), e)
                      ELSE IF ~SliceFits(r_buff, r1 * size, ByteLen(r_buff, e), e)
                           THEN VPanic(v1)
                           ELSE visit_asc(RightmostOf(node), v1,
                                          SliceFrom(r_buff, r1 * size, e), e)
            IN IF Failed(v1) \/ ~Visitor_visit_asc(v1) THEN v1
               ELSE RootL1Node_visit_right(node, v2, r1, l1_entries, r_buff, e))

\* RootL1Node::visit
RootL1Node_visit(node, v0, raw_entries, e) ==
  Bind2(DebugAssert(v0, raw_entries # << >>), byte_size(SubTreeOf(node), e),
        LAMBDA v, size :
  Bind2(Slice(raw_entries, 0, node.n_elems * e, e),
        SliceFrom(raw_entries, node.n_elems * e, e),
        LAMBDA l1_entries, r_buff :
  Bind(RawEntries_binary_search(l1_entries, Visitor_center(v)),
       LAMBDA r :
  LET n == node.n_elems
      i == r.i
      rightmost_fits == SliceFits(r_buff, i * size, ByteLen(r_buff, e), e)
      c3 == Bind(Visitor_visit_center(v, RawEntries_get_entry(l1_entries, i)),
                 LAMBDA c1 :
             Bind(IF ~Visitor_visit_desc(c1) THEN c1
                  ELSE IF ~ChildFits(r_buff, i, size, e) THEN VPanic(c1)
                  ELSE visit_desc(SubTreeOf(node), c1,
                                  Child(r_buff, i, size, e), e),
                  LAMBDA c2 :
               IF Failed(c2) \/ ~Visitor_visit_asc(c2) THEN c2
               ELSE IF i < n
               THEN IF ~ChildFits(r_buff, i + 1, size, e) THEN VPanic(c2)
                    ELSE visit_asc(SubTreeOf(node), c2,
                                   Child(r_buff, i + 1, size, e), e)
               ELSE IF ~rightmost_fits THEN VPanic(c2)
                    ELSE visit_asc(RightmostOf(node), c2,
                                   SliceFrom(r_buff, i * size, e), e)))
      m1 == IF i < n
            THEN IF ~ChildFits(r_buff, i, size, e) THEN VPanic(v)
                 ELSE visit(SubTreeOf(node), v, Child(r_buff, i, size, e), e)
            ELSE IF ~rightmost_fits THEN VPanic(v)
                 ELSE visit(RightmostOf(node), DebugAssert(v, i = n),
                            SliceFrom(r_buff, i * size, e), e)
      after == IF r.found THEN c3 ELSE m1
      right == IF r.found THEN i + 1 ELSE i
  IN IF byte_size(node, e) # ByteLen(raw_entries, e) THEN VPanic(v)
     ELSE IF l1_entries = << >> THEN VPanic(v)
     ELSE RootL1Node_visit_right(node,
            RootL1Node_visit_left(node, after, i - 1, l1_entries, r_buff, e),
            right, l1_entries, r_buff, e))))

\* ---- RootLDNode
RECURSIVE RootLDNode_visit_right(_, _, _, _, _, _, _, _)
\* `while r < self.n_elems { ... }` of RootLDNode::visit; r1 is r after `r += 1`
RootLDNode_visit_right(node, v, r, entries, l1_buff, st_buff, r_buff, e) ==
  LET r1 == r + 1
  IN IF Failed(v) \/ ~(r < node.n_elems) \/ ~Visitor_visit_asc(v) THEN v
     ELSE IF ~RawEntries_in_range(entries, r) THEN VErr(v)
     ELSE Bind(Visitor_visit_he_center(v, RawEntries_get_entry(entries, r)),
               LAMBDA v1 :
            LET v2 == IF r1 < node.n_elems
                      THEN PageVisitAsc(node, v1, l1_buff, st_buff, r1, e)
                      ELSE visit_asc(RightmostOf(node), v1, r_buff, e)
            IN IF Failed(v1) \/ ~Visitor_visit_asc(v1) THEN v1
               ELSE RootLDNode_visit_right(node, v2, r1, entries, l1_buff,
                                           st_buff, r_buff, e))

\* RootLDNode::visit
RootLDNode_visit(node, v, raw_entries, e) ==
  Bind2(node.n_elems * node.n_l1page_elems * e,
        node.n_elems * (node.n_l1page_elems + 1)
          * byte_size(SubTreeOf(node), e),
        LAMBDA l1_len, st_len :
  Bind2(Slice(raw_entries, 0, node.n_elems * e, e),
        Slice(raw_entries, node.n_elems * e, node.n_elems * e + l1_len, e),
        LAMBDA entries, l1_buff :
  Bind2(Slice(raw_entries, node.n_elems * e + l1_len,
              node.n_elems * e + l1_len + st_len, e),
        SliceFrom(raw_entries, node.n_elems * e + l1_len + st_len, e),
        LAMBDA st_buff, r_buff :
  Bind(RawEntries_binary_search(entries, Visitor_center(v)),
       LAMBDA r :
  LET n == node.n_elems
      i == r.i
      c3 == Bind(Visitor_visit_center(v, RawEntries_get_entry(entries, i)),
                 LAMBDA c1 :
             Bind(IF ~Visitor_visit_desc(c1) THEN c1
                  ELSE PageVisitDesc(node, c1, l1_buff, st_buff, i, e),
                  LAMBDA c2 :
               IF Failed(c2) \/ ~Visitor_visit_asc(c2) THEN c2
               ELSE IF i < n
               THEN PageVisitAsc(node, c2, l1_buff, st_buff, i + 1, e)
               ELSE visit_asc(RightmostOf(node), c2, r_buff, e)))
      m1 == IF i < n
            THEN PageVisit(node, v, l1_buff, st_buff, i, e)
            ELSE visit(RightmostOf(node), v, r_buff, e)
      after == IF r.found THEN c3 ELSE m1
      right == IF r.found THEN i + 1 ELSE i
  IN IF byte_size(node, e) # ByteLen(raw_entries, e) THEN VPanic(v)
     ELSE IF entries = << >> THEN VPanic(v)
     ELSE RootLDNode_visit_right(node,
            LDNode_visit_left(node, after, i - 1, entries, l1_buff, st_buff, e),
            right, entries, l1_buff, st_buff, r_buff, e)))))

\* ---- L1Node and the dispatch on the node shape
\* L1Node::visit, L1Node::visit_desc, L1Node::visit_asc split raw_entries
\* at n_elems * entry_byte_size.
L1Node_splits(node, raw_entries, e) == SliceFits(raw_entries, 0, node.n_elems * e, e)
L1Node_l1_buff(node, raw_entries, e) == Slice(raw_entries, 0, node.n_elems * e, e)
L1Node_st_buff(node, raw_entries, e) == SliceFrom(raw_entries, node.n_elems * e, e)

\* impl SubTreeR for Root / for SubTree: visit
Root_visit(node, v, raw_entries, e) ==
  CASE node.kind = "L1Leaf" -> L1Leaf_visit(node, v, raw_entries, e)
    [] node.kind = "L1Node" ->
         IF ~L1Node_splits(node, raw_entries, e) THEN VPanic(v)
         ELSE visit_l1page(
                DebugAssert(v, byte_size(node, e) = ByteLen(raw_entries, e)),
                L1Node_l1_buff(node, raw_entries, e), SubTreeOf(node),
                L1Node_st_buff(node, raw_entries, e), e)
    [] node.kind = "LDNode" -> LDNode_visit(node, v, raw_entries, e)
    [] node.kind = "RootL1Node" -> RootL1Node_visit(node, v, raw_entries, e)
    [] node.kind = "RootLDNode" -> RootLDNode_visit(node, v, raw_entries, e)
    [] OTHER -> VPanic(v)

\* visit_desc; at a RootL1Node or RootLDNode it is `unreachable!()`
Root_visit_desc(node, v, raw_entries, e) ==
  CASE node.kind = "L1Leaf" -> L1Leaf_visit_desc(node, v, raw_entries, e)
    [] node.kind = "L1Node" ->
         IF ~L1Node_splits(node, raw_entries, e) THEN VPanic(v)
         ELSE visit_desc_l1page(
                DebugAssert(DebugAssert(v, Visitor_visit_desc(v)),
                            byte_size(node, e) = ByteLen(raw_entries, e)),
                L1Node_l1_buff(node, raw_entries, e), SubTreeOf(node),
                L1Node_st_buff(node, raw_entries, e), e)
    [] node.kind = "LDNode" -> LDNode_visit_desc(node, v, raw_entries, e)
    [] OTHER -> VPanic(v)

\* visit_asc; at a RootL1Node or RootLDNode it is `unreachable!()`
Root_visit_asc(node, v, raw_entries, e) ==
  CASE node.kind = "L1Leaf" -> L1Leaf_visit_asc(node, v, raw_entries, e)
    [] node.kind = "L1Node" ->
         IF ~L1Node_splits(node, raw_entries, e) THEN VPanic(v)
         ELSE visit_asc_l1page(
                DebugAssert(DebugAssert(v, Visitor_visit_asc(v)),
                            byte_size(node, e) = ByteLen(raw_entries, e)),
                L1Node_l1_buff(node, raw_entries, e), SubTreeOf(node),
                L1Node_st_buff(node, raw_entries, e), e)
    [] node.kind = "LDNode" -> LDNode_visit_asc(node, v, raw_entries, e)
    [] OTHER -> VPanic(v)

SubTreeR_dispatch(method, node, v, raw_entries, e) ==
  CASE method = "visit" -> Root_visit(node, v, raw_entries, e)
    [] method = "visit_desc" -> Root_visit_desc(node, v, raw_entries, e)
    [] method = "visit_asc" -> Root_visit_asc(node, v, raw_entries, e)

\* ------------------------------------------------------------------ codecs
\* A ReadWrite value: its kind and n_bytes().  The integer codecs write a
\* value in n_bytes little-endian bytes and read it back.
IntRW == [kind |-> "int", n_bytes |-> 8]
StrRW(n_bytes) == [kind |-> "str", n_bytes |-> n_bytes]

\* A String is the sequence of its bytes.  The bytes that occur in the model's
\* strings, ascending: the null byte, 'a' and 'b'.
StrAlphabet == << 0, 97, 98 >>
StrBase == Len(StrAlphabet) + 1
ByteRank(b) == CHOOSE i \in 1..Len(StrAlphabet) : StrAlphabet[i] = b

RECURSIVE Pow(_, _)
Pow(b, n) == IF n = 0 THEN 1 ELSE b * Pow(b, n - 1)

\* <String as Ord>::cmp is the lexicographic order of the bytes, a proper
\* prefix being smaller.  The tree compares values with <, = and >, so a
\* String of at most MaxStrLen bytes is held as its rank in that order: one
\* digit per position, 0 past the end of the string.
RECURSIVE StrOrdFrom(_, _)
StrOrdFrom(s, i) ==
  IF i > MaxStrLen THEN 0
  ELSE (IF i <= Len(s) THEN ByteRank(s[i]) ELSE 0) * Pow(StrBase, MaxStrLen - i)
         + StrOrdFrom(s, i + 1)
StrOrd(s) == StrOrdFrom(s, 1)
\* The String of a rank.
StrDigit(code, i) == (code \div Pow(StrBase, MaxStrLen - i)) % StrBase
StrOf(code) ==
  LET len == Cardinality({ i \in 1..MaxStrLen : StrDigit(code, i) # 0 })
  IN [i \in 1..len |-> StrAlphabet[StrDigit(code, i)]]

\* StrRW::write: the first n_bytes bytes of val, or val and then null bytes
StrRW_write(rw, val) ==
  IF Len(val) >= rw.n_bytes THEN SubSeq(val, 1, rw.n_bytes)
  ELSE val \o [i \in 1..(rw.n_bytes - Len(val)) |-> 0]
\* StrRW::read: read_exact of n_bytes bytes, then String::from_utf8 (every
\* byte of StrAlphabet is ASCII, so the String holds the bytes read)
StrRW_read(rw, reader) == SubSeq(reader, 1, rw.n_bytes)

\* What val_rw.read returns from the bytes val_rw.write left for val.  The
\* integers of the model fit the integer codecs, which give them back.
ReadWrite_stored(rw, val) ==
  IF rw.kind = "str"
  THEN StrOrd(StrRW_read(rw, StrRW_write(rw, StrOf(val))))
  ELSE val
\* What val_rw.read returns from bytes never written (all zero)
ReadWrite_zero(rw) ==
  IF rw.kind = "str"
  THEN StrOrd(StrRW_read(rw, [i \in 1..rw.n_bytes |-> 0]))
  ELSE 0
\* The slots of a written buffer as a reader decodes them: padding slots
\* (identifier 0) were never written.
Stored(rw, buf) ==
  IF rw.kind = "int" THEN buf
  ELSE [i \in 1..Len(buf) |->
          IF buf[i].id = 0 THEN Entry(0, ReadWrite_zero(rw))
          ELSE Entry(buf[i].id, ReadWrite_stored(rw, buf[i].val))]

\* ------------------------------------------------------------------ header
\* A str is a sequence of one-character strings; a byte is a number of 0..255.
DigitChars == << "0", "1", "2", "3", "4", "5", "6", "7", "8", "9" >>
IsDigit(c) == \E i \in 1..10 : DigitChars[i] = c
DigitVal(c) == (CHOOSE i \in 1..10 : DigitChars[i] = c) - 1

RECURSIVE format_usize(_)
\* format!("{}", n) of an unsigned integer
format_usize(n) ==
  IF n < 10 THEN << DigitChars[n + 1] >>
  ELSE format_usize(n \div 10) \o << DigitChars[(n % 10) + 1] >>

RECURSIVE parse_u8_digits(_, _)
\* The digit loop of u8::from_str: Err on a non-digit and on overflow.
parse_u8_digits(s, acc) ==
  IF s = << >> THEN [ok |-> TRUE, val |-> acc]
  ELSE IF ~IsDigit(Head(s)) \/ acc * 10 + DigitVal(Head(s)) > 255
  THEN [ok |-> FALSE, val |-> 0]
  ELSE parse_u8_digits(Tail(s), acc * 10 + DigitVal(Head(s)))
\* str::parse::<u8>: an optional '+', then at least one digit
parse_u8(s) ==
  LET digits == IF s # << >> /\ Head(s) = "+" THEN Tail(s) ELSE s
  IN IF digits = << >> THEN [ok |-> FALSE, val |-> 0]
     ELSE parse_u8_digits(digits, 0)

RECURSIVE rsplit(_, _)
\* str::rsplit(sep): the pieces between separators, the last piece first
rsplit(s, sep) ==
  LET at == { i \in 1..Len(s) : s[i] = sep }
  IN IF at = {} THEN << s >>
     ELSE LET last == CHOOSE i \in at : \A j \in at : j <= i
          IN << SubSeq(s, last + 1, Len(s)) >>
               \o rsplit(SubSeq(s, 1, last - 1), sep)

\* const VERSION: &str = env!("CARGO_PKG_VERSION"), and FILE_TYPE
VERSION == << "0", ".", "1", ".", "1" >>
FILE_TYPE == << "B", "S", "T", "r", "e", "e", "F", "i", "l", "e" >>

\* fn parse_version, for a crate of the given version.  status "ok" with the
\* three numbers, "err" (ParseIntError) or "panic" (assert_eq!(v.len(), 3)).
parse_version(version) ==
  LET pieces == rsplit(version, ".")
      rv == [i \in 1..Len(pieces) |-> parse_u8(pieces[i])]
  IN IF \E i \in 1..Len(rv) : ~rv[i].ok
     THEN [status |-> "err", v_nums |-> << >>]
     ELSE IF Len(rv) # 3
     THEN [status |-> "panic", v_nums |-> << >>]
     ELSE [status |-> "ok", v_nums |-> << rv[1].val, rv[2].val, rv[3].val >>]

\* buff.write_u16::<LittleEndian>(x)
LittleEndianU16(x) == << AsU16(x) % 256, AsU16(x) \div 256 >>

\* fn write_meta on a buff of buff_len bytes: the bytes it leaves in buff.
\* parse_version().unwrap() panics on Err; write_all on a slice too short is
\* an io::Error; the meta-data must fill what is left of buff exactly.
write_meta(version, buff_len, encoded_meta) ==
  LET v == parse_version(version)
      before_meta == FILE_TYPE \o v.v_nums
                       \o LittleEndianU16(Len(encoded_meta))
  IN IF v.status # "ok" THEN [status |-> "panic", bytes |-> << >>]
     ELSE IF buff_len < Len(before_meta)
     THEN [status |-> "err", bytes |-> SubSeq(before_meta, 1, buff_len)]
     ELSE IF buff_len - Len(before_meta) # Len(encoded_meta)
     THEN [status |-> "panic", bytes |-> before_meta]
     ELSE [status |-> "ok", bytes |-> before_meta \o encoded_meta]

\* ------------------------------------------------------------ external sort
\* struct TmpDir { path, level, n_files }: one directory, so no path.
TmpDir(level, n_files) == [level |-> level, n_files |-> n_files]

TMP_FILE_PREFIX ==
  << ".", "b", "s", "t", "r", "e", "e", "_", "c", "h", "u", "n", "k" >>
\* str::starts_with
starts_with(s, prefix) ==
  Len(prefix) <= Len(s) /\ SubSeq(s, 1, Len(prefix)) = prefix
\* format!("{}_l{}", TMP_FILE_PREFIX, level), the prefix clear looks for
LevelPrefix(level) == TMP_FILE_PREFIX \o << "_", "l" >> \o format_usize(level)
\* TmpDir::get_file_path: format!("{}_l{}i{}", TMP_FILE_PREFIX, level, index)
FilePath(level, index) ==
  LevelPrefix(level) \o << "i" >> \o format_usize(index)
TmpDir_next_level(self) == TmpDir(self.level + 1, 0)

\* The files of the temporary directory are a function: the file named
\* FilePath(level, index) is found at << level, index >> and holds entries.
\* TmpDir::clear removes every file whose name starts with the prefix of the
\* level; without the directory read_dir fails and nothing is removed.
TmpDir_clear(self, files) ==
  [f \in { g \in DOMAIN files :
             ~starts_with(FilePath(g[1], g[2]), LevelPrefix(self.level)) }
     |-> files[f]]

\* TmpFile::into_iter can open file `index` of the directory
CanOpen(self, files, index) == << self.level, index >> \in DOMAIN files

\* Itertools::kmerge of iterators that are each sorted (a temporary file is
\* written from a sorted chunk or from a merge): the entries by ascending
\* value.  Entries of equal value come out in an order itertools does not
\* specify; here by iterator, then by position.
KMerge(its) ==
  LET slots == UNION { { << f, i >> : i \in 1..Len(its[f]) } : f \in 1..Len(its) }
      Before(a, b) ==
        \/ its[a[1]][a[2]].val < its[b[1]][b[2]].val
        \/ /\ its[a[1]][a[2]].val = its[b[1]][b[2]].val
           /\ (a[1] < b[1] \/ (a[1] = b[1] /\ a[2] < b[2]))
      ranked == { << 1 + Cardinality({ b \in slots : Before(b, a) }),
                     its[a[1]][a[2]] >> : a \in slots }
  IN [r \in 1..Cardinality(slots) |-> (CHOOSE p \in ranked : p[1] = r)[2]]

\* What slice::sort_unstable may leave: a permutation of the chunk in
\* ascending order of value (Entry's Ord looks at val only).
sort_unstable(entries) ==
  { [i \in 1..Len(entries) |-> entries[p[i]]] :
      p \in { q \in [1..Len(entries) -> 1..Len(entries)] :
                /\ \A i, j \in 1..Len(entries) : i # j => q[i] # q[j]
                /\ \A i \in 1..(Len(entries) - 1) :
                     entries[q[i]].val <= entries[q[i + 1]].val } }

\* TmpDir::write_tmp_file: File::create fails without the directory or when
\* `fail` (the I/O error of this run happens here); else the entries are
\* written to file n_files and n_files grows by one.
write_tmp_file(self, files, dir, fail, entries) ==
  IF ~dir \/ fail THEN [ok |-> FALSE, self |-> self, files |-> files]
  ELSE [ok |-> TRUE,
        self |-> [self EXCEPT !.n_files = self.n_files + 1],
        files |-> (<< self.level, self.n_files >> :> entries) @@ files]

\* (0..n_files).chunks(k): the number of chunks, and the indices of chunk g
NChunks(n, k) == (n + k - 1) \div k
ChunkOf(g, n, k) == [j \in 1..(Min((g + 1) * k, n) - g * k) |-> g * k + j - 1]

\* ------------------------------------------------------------ state machine
VARIABLES
  args,              \* entry byte size and MemSizeArgs given to build
  n_entries,         \* the n_entries argument of build
  entries_iterator,  \* the entries handed to build, in iteration order
  phase,             \* "start", then "planned" (planner alone) or
                     \* "built" / "failed" (build returned Ok / did not)
  meta,              \* Option<BSTreeMeta>: the meta-data of the file
  file,              \* the data part of the output file, one slot per entry
  build_result,      \* how build ended, and what it left in the iterator
  query,             \* the last query made on the file
  answer,            \* what SubTreeR::get returned for it
  visitor,           \* the visitor Root::visit returned for it
  val_rw,            \* the value codec (VRW) the file is written and read with
  version,           \* VERSION, the version of the crate that builds the file
  header,            \* the bytes write_meta left at the start of the file
  records,           \* the rows of the CSV input, as entries
  mk_args,           \* MkAlgoArgs { chunk_size, kway }
  count,             \* mk_no_null: the number of rows read so far
  tmp_dir,           \* mk_no_null: the TmpDir it holds
  frames,            \* the TmpDir each suspended reduce_to_k_files call owns
  tmp_files,         \* the files of the temporary directory, by name
  io,                \* the file system: does the directory exist, the I/O
                     \* error about to happen and the one that happened
  mk_pc,             \* where mk_no_null stands
  mk_result          \* what mk_no_null returned

header_vars == << version, header >>
mk_vars == << records, mk_args, count, tmp_dir, frames, tmp_files, io, mk_pc,
              mk_result >>
vars == << args, n_entries, entries_iterator, phase, meta, file, build_result,
           query, answer, visitor, val_rw, header_vars, mk_vars >>

\* The entries of a stream: identifiers are the positions 1..n.
StreamOf(vals) == [i \in 1..Len(vals) |-> Entry(i, vals[i])]
IsSortedVals(vals) == \A i \in 1..(Len(vals) - 1) : vals[i] <= vals[i + 1]

\* Every sorted sequence of n values of 1..MaxVal.
SmallStreams(n) ==
  { StreamOf(vals) : vals \in { s \in [1..n -> 1..MaxVal] : IsSortedVals(s) } }
\* Entry counts of the deeper trees: with them every node shape occurs as a
\* root, as a sub-tree and as a right spine (a depth-4 tree needs 16 entries
\* when a page holds one entry); 5 entries are exactly one full sub-tree of
\* depth 1 when a page holds one entry and an LD page three L1 pages.
DeepSizes == {4, 5, 6, 7, 8, 9, 15, 16}
\* Two sorted sequences of n values for a deeper tree: the values of
\* 1..MaxDeepVal spread evenly, and the two extreme values only.
DeepStreams(n) ==
  { StreamOf([i \in 1..n |-> 1 + ((i - 1) * MaxDeepVal) \div n]),
    StreamOf([i \in 1..n |-> IF 2 * i <= n THEN 1 ELSE MaxDeepVal]) }
Sizes == (0..MaxN) \cup DeepSizes
Streams(n) == IF n <= MaxN THEN SmallStreams(n) ELSE DeepStreams(n)

NoQuery == [mode |-> "None", value |-> 0, hi |-> 0, limit |-> 0, k |-> 0,
            d_max |-> None]
NoAnswer == GetResult("none", None, FALSE)
NoBuild == [status |-> "none", it |-> << >>]

NoHeader == [status |-> "none", bytes |-> << >>]
NoIo == [dir |-> FALSE, fault |-> "none", failed |-> "none"]
NoMkResult == [status |-> "none", count |-> 0]

\* No output file yet, and no query.
InitFile ==
  /\ meta = None
  /\ file = << >>
  /\ build_result = NoBuild
  /\ query = NoQuery
  /\ answer = NoAnswer
  /\ visitor = VisitorBase
  /\ header = NoHeader

InitCommon ==
  /\ phase = "start"
  /\ InitFile

\* The crate at its version, writing integer values.
InitCrate ==
  /\ version = VERSION
  /\ val_rw = IntRW

\* No CSV input: build is handed its entries directly.
InitNoMk ==
  /\ records = << >>
  /\ mk_args = [chunk_size |-> 1, kway |-> 2]
  /\ count = 0
  /\ tmp_dir = TmpDir(0, 0)
  /\ frames = << >>
  /\ tmp_files = << >>
  /\ io = NoIo
  /\ mk_pc = "none"
  /\ mk_result = NoMkResult

\* A sorted stream of exactly n_entries entries is about to be built.
Init ==
  /\ args \in MemConfigs
  /\ n_entries \in Sizes
  /\ entries_iterator \in Streams(n_entries)
  /\ InitCommon
  /\ InitCrate
  /\ InitNoMk

\* fn build: plan the layout, size the file, write the root node.
\* (The header is written by WriteMeta; the data part is N * e bytes.)
Build ==
  /\ phase = "start"
  /\ LET e == args.e
         m == BSTreeMeta_from(n_entries, e, MemSizeArgs_l1_byte_size(args),
                              MemSizeArgs_disk_byte_size(args))
         root == BSTreeMeta_get_root(m)
         w == write(root, entries_iterator, n_entries * e, e)
     IN /\ meta' = Some(m)
        /\ IF m.layout.status = "panic"
           THEN /\ file' = << >>
                /\ build_result' = [status |-> "panic", it |-> entries_iterator]
                /\ phase' = "failed"
           ELSE /\ file' = Stored(val_rw, w.buf)
                /\ build_result' = [status |-> w.status, it |-> w.it]
                /\ phase' = IF w.status = "ok" THEN "built" ELSE "failed"
  /\ UNCHANGED << args, n_entries, entries_iterator, query, answer, visitor,
                  val_rw, header_vars, mk_vars >>

\* What a reader of the file works with.
Root == BSTreeMeta_get_root(meta[1])
\* The non-empty Strings of at most MaxStrLen bytes (a CSV column that is
\* empty is an error) and the Strings a query may be made with.
Strs == UNION { [1..n -> { StrAlphabet[i] : i \in 1..Len(StrAlphabet) }] :
                n \in 1..MaxStrLen }
QueryStrs == Strs \cup { << >> }
\* The values queried: value.parse::<V>() of the string given (for a String,
\* the string itself).
QueryVals ==
  IF val_rw.kind = "str" THEN { StrOrd(s) : s \in QueryStrs }
  ELSE 0..(1 + (IF entries_iterator = << >> THEN MaxVal
                ELSE Max(MaxVal, entries_iterator[Len(entries_iterator)].val)))
Limits == (0..MaxLimit) \cup {UsizeMax}
DMaxs == {None} \cup { Some(d) : d \in 1..MaxDMax }

\* One query through Root::visit with the given visitor.  A run of the query
\* tool opens the file, makes one query and ends; the file never changes, so
\* every query starts from the state the build left.
Visit(mode, v) ==
  /\ phase = "built"
  /\ query = NoQuery
  /\ query' = [mode |-> mode, value |-> v.center, hi |-> v.hi,
               limit |-> v.limit, k |-> v.k, d_max |-> v.d_max]
  /\ visitor' = visit(Root, v, file, args.e)
  /\ answer' = NoAnswer
  /\ UNCHANGED << args, n_entries, entries_iterator, phase, meta, file,
                  build_result, val_rw, header_vars, mk_vars >>

\* GetProcess::exec: root.get(v, data)
Get ==
  \E v \in QueryVals :
    /\ phase = "built"
    /\ query = NoQuery
    /\ query' = [NoQuery EXCEPT !.mode = "Get", !.value = v]
    /\ answer' = get(Root, v, file, args.e)
    /\ visitor' = VisitorBase
    /\ UNCHANGED << args, n_entries, entries_iterator, phase, meta, file,
                    build_result, val_rw, header_vars, mk_vars >>

\* GetExactProcess::exec and Mode::GetFirst
GetFirst == \E v \in QueryVals : Visit("GetFirst", VisitorExact_new(v))
\* Mode::All with and without `count`
All == \E v \in QueryVals, limit \in Limits : Visit("All", VisitorAll_new(v, limit))
AllCount ==
  \E v \in QueryVals, limit \in Limits :
    Visit("AllCount", VisitorAllCount_new(v, limit))
\* Mode::Nn
Nn == \E v \in QueryVals, d_max \in DMaxs : Visit("Nn", VisitorNn_new(v, d_max))
\* Mode::Knn
Knn ==
  \E v \in QueryVals, k \in 0..MaxK, d_max \in DMaxs :
    Visit("Knn", VisitorKnn_new(v, k, d_max))
\* Mode::Range with and without `count`
Range ==
  \E lo \in QueryVals, hi \in QueryVals, limit \in Limits :
    lo <= hi /\ Visit("Range", VisitorRange_new(lo, hi, limit))
RangeCount ==
  \E lo \in QueryVals, hi \in QueryVals, limit \in Limits :
    lo <= hi /\ Visit("RangeCount", VisitorRangeCount_new(lo, hi, limit))

Next ==
  \/ Build
  \/ Get
  \/ GetFirst
  \/ All
  \/ AllCount
  \/ Nn
  \/ Knn
  \/ Range
  \/ RangeCount

Spec == Init /\ [][Next]_vars

\* ---- The planner alone: BSTreeMeta::from on every entry count up to
\* MaxPlanN, for page geometries that reach every depth the planner knows.
InitPlan ==
  /\ \/ args \in PlanConfigs /\ n_entries \in 0..MaxPlanN
     \/ args = LargeLDConfig /\ n_entries = LargeLDPlanN
  /\ entries_iterator = << >>
  /\ InitCommon
  /\ InitCrate
  /\ InitNoMk

\* BSTreeMeta::from, the first step of build
Plan ==
  /\ phase = "start"
  /\ phase' = "planned"
  /\ meta' = Some(BSTreeMeta_from(n_entries, args.e,
                                  MemSizeArgs_l1_byte_size(args),
                                  MemSizeArgs_disk_byte_size(args)))
  /\ UNCHANGED << args, n_entries, entries_iterator, file, build_result,
                  query, answer, visitor, val_rw, header_vars, mk_vars >>

NextPlan == Plan
SpecPlan == InitPlan /\ [][NextPlan]_vars

\* ---- build alone, on streams that yield fewer entries than n_entries, as
\* many, or more.
InitBuild ==
  /\ args \in MemConfigs
  /\ n_entries \in Sizes
  /\ \E n \in { n_entries - 1, n_entries, n_entries + 1 } \cap Sizes :
       entries_iterator \in Streams(n)
  /\ InitCommon
  /\ InitCrate
  /\ InitNoMk

NextBuild == Build
SpecBuild == InitBuild /\ [][NextBuild]_vars

\* ---- write_meta alone, for crates of every version major.minor.patch with
\* numbers of VersionNums, and meta-data of a few lengths.
VersionNums == (0..MaxVersionNum) \cup {10, 255, 256}
Versions ==
  { format_usize(major) \o << "." >> \o format_usize(minor) \o << "." >>
      \o format_usize(patch) : major \in VersionNums, minor \in VersionNums,
                               patch \in VersionNums }
EncodedMetas == UNION { [1..n -> {0, 255}] : n \in 0..MaxMetaLen }

InitMeta ==
  /\ args \in { CHOOSE a \in MemConfigs : TRUE }
  /\ n_entries = 0
  /\ entries_iterator = << >>
  /\ InitCommon
  /\ version \in Versions
  /\ val_rw = IntRW
  /\ InitNoMk

\* The header part of build: the meta-data is serialized and write_meta is
\* given the first FILE_TYPE.len() + 3 + 2 + encoded_meta.len() bytes of the
\* file.
WriteMeta ==
  \E encoded_meta \in EncodedMetas :
    /\ phase = "start"
    /\ header = NoHeader
    /\ header' = write_meta(version, Len(FILE_TYPE) + 3 + 2 + Len(encoded_meta),
                            encoded_meta)
    /\ UNCHANGED << args, n_entries, entries_iterator, phase, meta, file,
                    build_result, query, answer, visitor, val_rw, version,
                    mk_vars >>

NextMeta == WriteMeta
SpecMeta == InitMeta /\ [][NextMeta]_vars

\* ---- An index of Strings: val_type = t<StrWidth>, built from sorted
\* Strings and then queried by exact value.
StrStreams(n) ==
  { StreamOf(vals) :
      vals \in { s \in [1..n -> { StrOrd(x) : x \in Strs }] : IsSortedVals(s) } }
InitStr ==
  /\ args = CHOOSE a \in MemConfigs : \A b \in MemConfigs : a.e <= b.e
  /\ n_entries \in 0..MaxStrN
  /\ entries_iterator \in StrStreams(n_entries)
  /\ InitCommon
  /\ version = VERSION
  /\ val_rw = StrRW(StrWidth)
  /\ InitNoMk

NextStr ==
  \/ Build
  \/ Get
  \/ GetFirst
SpecStr == InitStr /\ [][NextStr]_vars

\* ---- MkIndex::mk_no_null: the rows of a CSV input are sorted through
\* temporary files and handed to build.  At most one I/O error happens in a
\* run: io.fault says which kind may, io.failed which did.
\* The rows of a small input, and the one large input.
SortInputs ==
  { StreamOf(vals) : vals \in UNION { [1..n -> 1..MaxSortVal] : n \in 0..MaxRows } }
BigInput == StreamOf([i \in 1..BigN |-> 1 + ((BigN - i) % MaxSortVal)])
Faults == {"none", "create_dir", "write", "read"}

InitSort ==
  /\ args = CHOOSE a \in MemConfigs : \A b \in MemConfigs : a.e <= b.e
  /\ n_entries = 0
  /\ entries_iterator = << >>
  /\ phase = "sorting"
  /\ InitFile
  /\ InitCrate
  /\ \/ /\ records \in SortInputs
        /\ mk_args \in [chunk_size : 1..MaxChunkSize, kway : 1..MaxKway]
        /\ io \in [dir : {FALSE}, fault : Faults, failed : {"none"}]
     \/ /\ records = BigInput
        /\ mk_args = [chunk_size |-> 1, kway |-> 2]
        /\ io = NoIo
  /\ count = 0
  /\ tmp_dir = TmpDir(0, 0)
  /\ frames = << >>
  /\ tmp_files = << >>
  /\ mk_pc = "start"
  /\ mk_result = NoMkResult

file_vars == << args, meta, file, build_result, query, answer, visitor, val_rw,
               header_vars >>
build_vars == << n_entries, entries_iterator, phase >>

\* The I/O error of kind `kind` can happen now.
Armed(kind) == io.fault = kind /\ io.failed = "none"

\* MkAlgoArgs::get_tmp_dir, TmpDir::new: what fs::create_dir_all returns is
\* discarded, so a TmpDir is returned with or without the directory.
GetTmpDir ==
  /\ mk_pc = "start"
  /\ io' = IF Armed("create_dir") THEN [io EXCEPT !.failed = "create_dir"]
           ELSE [io EXCEPT !.dir = TRUE]
  /\ tmp_dir' = TmpDir(0, 0)
  /\ mk_pc' = IF records = << >> THEN "reduce" ELSE "chunks"
  /\ UNCHANGED << file_vars, build_vars, records, mk_args, count, frames,
                  tmp_files, mk_result >>

\* One turn of the loop over the chunks of rows: sort the chunk, count it,
\* write it to a temporary file; an Err from write_tmp_file is returned (`?`)
\* and tmp_dir is dropped.
WriteChunk ==
  /\ mk_pc = "chunks"
  /\ \E fail \in BOOLEAN :
       /\ fail => Armed("write")
       /\ LET chunk == SubSeq(records, count + 1,
                              Min(count + mk_args.chunk_size, Len(records)))
          IN \E entries \in sort_unstable(chunk) :
               LET w == write_tmp_file(tmp_dir, tmp_files, io.dir, fail, entries)
               IN /\ count' = count + Len(entries)
                  /\ io' = IF fail THEN [io EXCEPT !.failed = "write"] ELSE io
                  /\ tmp_dir' = w.self
                  /\ IF w.ok
                     THEN /\ tmp_files' = w.files
                          /\ mk_pc' = IF count' = Len(records) THEN "reduce"
                                      ELSE "chunks"
                          /\ mk_result' = mk_result
                     ELSE /\ tmp_files' = TmpDir_clear(tmp_dir, w.files)
                          /\ mk_pc' = "done"
                          /\ mk_result' = [status |-> "err", count |-> 0]
  /\ UNCHANGED << file_vars, build_vars, records, mk_args, frames >>

\* One call of TmpDir::reduce_to_k_files.  With more than k files, every
\* chunk of k files is merged into a file of the next level - what
\* write_tmp_file returns is discarded, a file that cannot be opened or read
\* is a panic - and the call recurses on the next level, this TmpDir staying
\* in its frame; `bad` is the chunk at which the I/O error happens (0: none).
ReduceToKFiles ==
  /\ mk_pc = "reduce"
  /\ LET n == tmp_dir.n_files
         k == mk_args.kway
     IN IF n > k
        THEN /\ tmp_dir.level < MaxLevel
             /\ \E bad \in 0..NChunks(n, k) :
                  /\ bad # 0 => (Armed("write") \/ Armed("read"))
                  /\ LET next == TmpDir_next_level(tmp_dir)
                         lost == bad # 0 /\ io.fault = "write"
                         written == NChunks(n, k) - (IF lost THEN 1 ELSE 0)
                         \* the chunk whose merge is file j of the next level
                         From(j) == IF lost /\ j >= bad - 1 THEN j + 1 ELSE j
                         Merged(j) ==
                           LET chunk == ChunkOf(From(j), n, k)
                           IN KMerge([i \in 1..Len(chunk) |->
                                        tmp_files[<< tmp_dir.level, chunk[i] >>]])
                         new == { << next.level, j >> : j \in 0..(written - 1) }
                     IN IF \/ bad # 0 /\ io.fault = "read"
                           \/ \E i \in 0..(n - 1) : ~CanOpen(tmp_dir, tmp_files, i)
                        THEN /\ mk_pc' = "done"
                             /\ mk_result' = [status |-> "panic", count |-> 0]
                             /\ io' = IF bad # 0 THEN [io EXCEPT !.failed = "read"]
                                      ELSE io
                             /\ UNCHANGED << tmp_dir, frames, tmp_files >>
                        ELSE /\ tmp_files' =
                                  [f \in DOMAIN tmp_files \cup new |->
                                     IF f \in new THEN Merged(f[2])
                                     ELSE tmp_files[f]]
                             /\ frames' = Append(frames, tmp_dir)
                             /\ tmp_dir' = [next EXCEPT !.n_files = written]
                             /\ io' = IF lost THEN [io EXCEPT !.failed = "write"]
                                      ELSE io
                             /\ UNCHANGED << mk_pc, mk_result >>
        ELSE /\ mk_pc' = IF frames = << >> THEN "merge" ELSE "unwind"
             /\ UNCHANGED << tmp_dir, frames, tmp_files, io, mk_result >>
  /\ UNCHANGED << file_vars, build_vars, records, mk_args, count >>

\* A call of reduce_to_k_files that recursed returns what the inner call
\* returned, and the TmpDir it was called on is dropped: Drop calls clear.
DropTmpDir ==
  /\ mk_pc = "unwind"
  /\ frames # << >>
  /\ tmp_files' = TmpDir_clear(frames[Len(frames)], tmp_files)
  /\ frames' = SubSeq(frames, 1, Len(frames) - 1)
  /\ mk_pc' = IF Len(frames) = 1 THEN "merge" ELSE "unwind"
  /\ UNCHANGED << file_vars, build_vars, records, mk_args, count, tmp_dir, io,
                  mk_result >>

\* TmpDir::to_sorted_iter: the k-way merge of the files of tmp_dir, handed
\* to build with n_entries = count.  A file that cannot be opened (expect)
\* or read (unwrap_or_else(panic!)) is a panic.
ToSortedIter ==
  /\ mk_pc = "merge"
  /\ \E fail \in BOOLEAN :
       /\ fail => (Armed("read") /\ tmp_dir.n_files > 0)
       /\ IF fail \/ \E i \in 0..(tmp_dir.n_files - 1) :
                      ~CanOpen(tmp_dir, tmp_files, i)
          THEN /\ mk_pc' = "done"
               /\ mk_result' = [status |-> "panic", count |-> 0]
               /\ io' = IF fail THEN [io EXCEPT !.failed = "read"] ELSE io
               /\ UNCHANGED build_vars
          ELSE /\ entries_iterator' =
                    KMerge([i \in 1..tmp_dir.n_files |->
                              tmp_files[<< tmp_dir.level, i - 1 >>]])
               /\ n_entries' = count
               /\ phase' = "start"
               /\ mk_pc' = "build"
               /\ UNCHANGED << io, mk_result >>
  /\ UNCHANGED << file_vars, records, mk_args, count, tmp_dir, frames,
                  tmp_files >>

\* The end of mk_no_null: bstree::build(..)? and Ok(count); tmp_dir is
\* dropped.
MkReturn ==
  /\ mk_pc = "build"
  /\ phase \in {"built", "failed"}
  /\ mk_result' = IF build_result.status = "ok"
                  THEN [status |-> "ok", count |-> count]
                  ELSE [status |-> build_result.status, count |-> 0]
  /\ tmp_files' = TmpDir_clear(tmp_dir, tmp_files)
  /\ mk_pc' = "done"
  /\ UNCHANGED << file_vars, build_vars, records, mk_args, count, tmp_dir,
                  frames, io >>

NextSort ==
  \/ GetTmpDir
  \/ WriteChunk
  \/ ReduceToKFiles
  \/ DropTmpDir
  \/ ToSortedIter
  \/ Build
  \/ MkReturn
SpecSort == InitSort /\ [][NextSort]_vars

\* ---- the signed distance closure alone
\* A machine integer (i32, i64) is the sequence of its 16-bit limbs in two's
\* complement, lowest first: 2 limbs for i32 and 4 for i64.
is_negative(x) == x[Len(x)] >= 32768
\* The integer n, -32768 <= n < 32768, in a machine integer of `limbs` limbs.
SmallInt(n, limbs) ==
  [i \in 1..limbs |-> IF i = 1 THEN n % 65536 ELSE IF n < 0 THEN 65535 ELSE 0]
\* x as a machine integer of `limbs` limbs (sign extension).
SignExtend(x, limbs) ==
  [i \in 1..limbs |->
     IF i <= Len(x) THEN x[i] ELSE IF is_negative(x) THEN 65535 ELSE 0]
\* a - b modulo 2^(16 * Len(a)): limb i borrows 1 when the limbs of a below
\* it are, as a number, less than those of b.
wrapping_sub(a, b) ==
  LET borrow(i) ==
        IF \E j \in 1..(i - 1) :
             a[j] < b[j] /\ \A k \in (j + 1)..(i - 1) : a[k] = b[k]
        THEN 1 ELSE 0
  IN [i \in 1..Len(a) |-> (a[i] - b[i] - borrow(i)) % 65536]
wrapping_add(a, b) == wrapping_sub(a, wrapping_sub(SmallInt(0, Len(b)), b))
\* `a - b` of a signed machine integer: the wrapped value, and whether the
\* difference overflowed.  A build with overflow checks panics on overflow,
\* a build without them goes on with the wrapped value.
overflowing_sub(a, b) ==
  LET value == wrapping_sub(a, b)
  IN [ value |-> value,
       overflow |-> is_negative(a) # is_negative(b)
                      /\ is_negative(value) # is_negative(a) ]
\* `x.abs()` of a signed machine integer: the most negative value has no
\* absolute value in the type, and abs overflows on it.
overflowing_abs(x) ==
  LET value == IF is_negative(x) THEN wrapping_sub(SmallInt(0, Len(x)), x)
               ELSE x
  IN [ value |-> value, overflow |-> is_negative(value) ]

\* The distance closure of the signed value types:
\* |a: &i32, b: &i32| (a - b).abs() for I24 and I32,
\* |a: &i64, b: &i64| (a - b).abs() for I40, I48, I56 and I64.
signed_dist(a, b) ==
  LET difference == overflowing_sub(a, b)
      distance == overflowing_abs(difference.value)
  IN [ value |-> distance.value,
       overflow |-> difference.overflow \/ distance.overflow ]

\* I24RW, I32RW, I40RW, I48RW, I56RW, I64RW
SignedRW(n_bytes) == [kind |-> "signed", n_bytes |-> n_bytes]
SignedRWs == { SignedRW(n) : n \in 3..8 }
\* ReadWrite::Type of the signed codecs: i32 up to 4 bytes, i64 above.
TypeLimbs(rw) == IF rw.n_bytes <= 4 THEN 2 ELSE 4
\* The smallest and the largest value rw writes, in its Type.
MinOf(rw) ==
  LET top == (rw.n_bytes + 1) \div 2
  IN [i \in 1..TypeLimbs(rw) |->
        IF i < top THEN 0
        ELSE IF i > top THEN 65535
        ELSE IF rw.n_bytes % 2 = 0 THEN 32768 ELSE 65408]
MaxOf(rw) == [i \in 1..TypeLimbs(rw) |-> 65535 - MinOf(rw)[i]]
\* The values of rw near the ends of its range and near zero.
EdgeVals(rw) ==
  UNION { { wrapping_add(MinOf(rw), SmallInt(d, TypeLimbs(rw))),
            wrapping_sub(MaxOf(rw), SmallInt(d, TypeLimbs(rw))),
            SmallInt(d, TypeLimbs(rw)),
            SmallInt(-d, TypeLimbs(rw)) } : d \in 0..EdgeWidth }

InitDist ==
  /\ args \in { CHOOSE a \in MemConfigs : TRUE }
  /\ n_entries = 0
  /\ entries_iterator = << >>
  /\ phase = "closure"
  /\ InitFile
  /\ version = VERSION
  /\ val_rw \in SignedRWs
  /\ InitNoMk

\* A call of the closure by a visitor: (self.dist)(&self.center, &entry.val)
Distance ==
  \E a \in EdgeVals(val_rw), b \in EdgeVals(val_rw) :
    /\ phase = "closure"
    /\ query.mode = NoQuery.mode
    /\ query' = [NoQuery EXCEPT !.mode = "Distance", !.value = a, !.hi = b]
    /\ answer' = signed_dist(a, b)
    /\ UNCHANGED << args, n_entries, entries_iterator, phase, meta, file,
                    build_result, visitor, val_rw, header_vars, mk_vars >>

NextDist == Distance
SpecDist == InitDist /\ [][NextDist]_vars

\* ---- the binary search alone
\* A page of records read in memory: every non-empty ascending array of at
\* most MaxPageLen values of 1..MaxVal, duplicates included; the value looked
\* for is drawn by the action, from below the smallest to above the largest.
Pages ==
  UNION { { StreamOf(vals) :
            vals \in { a \in [1..n -> 1..MaxVal] : IsSortedVals(a) } } :
          n \in 1..MaxPageLen }

InitSearch ==
  /\ args \in { CHOOSE a \in MemConfigs : TRUE }
  /\ n_entries = 0
  /\ entries_iterator = << >>
  /\ phase = "page"
  /\ meta = None
  /\ file \in Pages
  /\ build_result = NoBuild
  /\ query = NoQuery
  /\ answer = NoAnswer
  /\ visitor = VisitorBase
  /\ header = NoHeader
  /\ InitCrate
  /\ InitNoMk

\* RawEntries::new(page).binary_search(&val)
BinarySearch ==
  \E val \in 0..(MaxVal + 1) :
    /\ phase = "page"
    /\ query = NoQuery
    /\ query' = [NoQuery EXCEPT !.mode = "BinarySearch", !.value = val]
    /\ answer' = RawEntries_binary_search(file, val)
    /\ UNCHANGED << args, n_entries, entries_iterator, phase, meta, file,
                    build_result, visitor, val_rw, header_vars, mk_vars >>

NextSearch == BinarySearch
SpecSearch == InitSearch /\ [][NextSearch]_vars

\* ------------------------------------------------------------------ claims
\* What the entries given to build say about a query.
EntrySet == { entries_iterator[i] : i \in 1..Len(entries_iterator) }
Holds(v) == \E x \in EntrySet : x.val = v
Matching(lo, hi) ==
  SelectSeq(entries_iterator, LAMBDA x : lo <= x.val /\ x.val <= hi)
SameBag(s, t) ==
  /\ Len(s) = Len(t)
  /\ \A x \in { s[i] : i \in 1..Len(s) } :
       Cardinality({ i \in 1..Len(s) : s[i] = x })
         = Cardinality({ i \in 1..Len(t) : t[i] = x })
Built == phase = "built"
HasSpine == Built /\ IsSome(meta[1].layout.rigthmost_subtree)

\* C1 (point completeness): on a built index, a get of a value some entry
\* holds, through SubTreeR::get or through a VisitorExact traversal, completes
\* and returns an entry of the index holding that value.
C1_PointCompleteness ==
  (Built /\ query.mode \in {"Get", "GetFirst"} /\ Holds(query.value)) =>
    IF query.mode = "Get"
    THEN /\ answer.status = "ok"
         /\ ~answer.dbg
         /\ IsSome(answer.entry)
         /\ answer.entry[1] \in EntrySet
         /\ answer.entry[1].val = query.value
    ELSE /\ ~Failed(visitor)
         /\ ~visitor.dbg
         /\ IsSome(visitor.entry)
         /\ visitor.entry[1] \in EntrySet
         /\ visitor.entry[1].val = query.value
\* C1 witness: a value found in a tree of depth 3 or more that has a right
\* spine and holds the value more than once.
C1_Witness ==
  /\ HasSpine
  /\ meta[1].layout.depth >= 3
  /\ query.mode = "Get"
  /\ Cardinality({ x \in EntrySet : x.val = query.value }) >= 2
  /\ answer.status = "ok"
  /\ IsSome(answer.entry)
  /\ answer.entry[1].val = query.value

\* C2 (range completeness): on a built index, range(lo, hi) with lo <= hi and
\* no limit completes and returns exactly the entries whose value lies in
\* [lo, hi], as a multiset, whatever the shape of the root.
C2_RangeCompleteness ==
  (Built /\ query.mode = "Range" /\ query.limit = UsizeMax) =>
    /\ ~Failed(visitor)
    /\ SameBag(visitor.entries, Matching(query.value, query.hi))

\* The entries of a k-NN answer, nearest first (Mode::Knn prints them so).
KnnEntries ==
  LET sorted == BinaryHeap_into_sorted_vec(visitor.knn)
  IN [i \in 1..Len(sorted) |-> sorted[i].neighbour]
\* res holds n distinct entries of the index, none further from v than an
\* entry left out: its distances are the n smallest distances to v.
Nearest(res, v, n) ==
  /\ Len(res) = n
  /\ \A i \in 1..Len(res) : res[i] \in EntrySet
  /\ \A i, j \in 1..Len(res) : res[i] = res[j] => i = j
  /\ \A x \in EntrySet \ { res[i] : i \in 1..Len(res) } :
       \A i \in 1..Len(res) : dist(res[i].val, v) <= dist(x.val, v)
MinDistance(v) ==
  CHOOSE d \in { dist(x.val, v) : x \in EntrySet } :
    \A x \in EntrySet : d <= dist(x.val, v)
NumberOf(v) == Cardinality({ x \in EntrySet : x.val = v })

\* C3 (k-NN): on a built index, knn(v, k) with k >= 1 and no d_max completes
\* and returns min(k, |E|) entries whose distances to v are the min(k, |E|)
\* smallest distances over E.
C3_KnnCorrectness ==
  (Built /\ query.mode = "Knn" /\ query.k >= 1 /\ query.d_max = None) =>
    /\ ~Failed(visitor)
    /\ \A i \in 1..Len(visitor.knn) :
         visitor.knn[i].distance = dist(visitor.knn[i].neighbour.val, query.value)
    /\ Nearest(KnnEntries, query.value, Min(query.k, n_entries))

\* C4 (nearest neighbour): on a built non-empty index, nn(v, d_max) completes
\* and returns an entry at the smallest distance to v when that distance is
\* within d_max (or no d_max is given), and nothing when it exceeds d_max.
C4_NearestNeighbour ==
  (Built /\ query.mode = "Nn" /\ n_entries > 0) =>
    /\ ~Failed(visitor)
    /\ IF query.d_max = None \/ MinDistance(query.value) <= query.d_max[1]
       THEN /\ IsSome(visitor.nn)
            /\ visitor.nn[1].neighbour \in EntrySet
            /\ visitor.nn[1].distance = MinDistance(query.value)
            /\ dist(visitor.nn[1].neighbour.val, query.value)
                 = MinDistance(query.value)
       ELSE visitor.nn = None

\* C5 (equal-to-value query): on a built index, all(v, limit), collecting or
\* counting, completes and reports exactly min(limit, m) entries, where m
\* entries of E hold v (limit = 0 reports none); the collected ones are
\* distinct entries of E holding v.
C5_AllQuery ==
  (Built /\ query.mode \in {"All", "AllCount"}) =>
    /\ ~Failed(visitor)
    /\ Visitor_count(visitor) = Min(query.limit, NumberOf(query.value))
    /\ \A i \in 1..Len(visitor.entries) :
         /\ visitor.entries[i] \in EntrySet
         /\ visitor.entries[i].val = query.value
         /\ \A j \in 1..Len(visitor.entries) :
              visitor.entries[i] = visitor.entries[j] => i = j

\* C6 (round trip): building an index and enumerating it with a range over
\* the whole value domain, without limit, completes and returns a
\* permutation of the entries built, their values in non-decreasing order.
WholeDomain ==
  /\ query.mode = "Range"
  /\ query.limit = UsizeMax
  /\ query.value = 0
  /\ \A x \in EntrySet : x.val <= query.hi
C6_RoundTrip ==
  (Built /\ WholeDomain) =>
    /\ ~Failed(visitor)
    /\ SameBag(visitor.entries, entries_iterator)
    /\ \A i \in 1..(Len(visitor.entries) - 1) :
         visitor.entries[i].val <= visitor.entries[i + 1].val

\* C7 (absent values): on every tree the planner produces, the empty one and
\* those with a right spine included, a get of a value no entry holds,
\* through SubTreeR::get or through a VisitorExact traversal, completes and
\* returns nothing.
C7_AbsentValue ==
  (Built /\ query.mode \in {"Get", "GetFirst"} /\ ~Holds(query.value)) =>
    IF query.mode = "Get"
    THEN answer.status = "ok" /\ answer.entry = None
    ELSE ~Failed(visitor) /\ visitor.entry = None

\* The layouts a planner run returned: the layout of the file and the
\* right-spine layouts nested in it, with the entries each has to hold.
Planned == phase = "planned" /\ meta[1].layout.status = "ok"
Spine == SpineLayouts(meta[1].layout)
RECURSIVE SpineEntries(_)
SpineEntries(i) ==
  IF i = 1 THEN n_entries ELSE SpineEntries(i - 1) - Spine[i - 1].n_entries_main

\* C8 (layout sizing): for every layout the planner returns, the root node
\* get_root makes of it has byte size N * e, and so has the root of every
\* nested right spine for the entries left to it.
C8_LayoutSizing ==
  Planned =>
    \A i \in 1..Len(Spine) :
      byte_size(get_root(Spine[i], meta[1].constants), args.e)
        = SpineEntries(i) * args.e
\* C8 witness: a layout of depth 3 or more with two nested right spines.
C8_Witness ==
  /\ Planned
  /\ Len(Spine) >= 3
  /\ Spine[1].depth >= 3
  /\ byte_size(BSTreeMeta_get_root(meta[1]), args.e) = n_entries * args.e

\* C9 (depth bound): every layout the planner returns, and every right-spine
\* layout nested in it, has depth at most 8.
C9_DepthBound ==
  Planned => \A i \in 1..Len(Spine) : Spine[i].depth <= 8

\* C10 (entry count): build succeeds only when the stream yields exactly
\* n_entries entries; with fewer or with more it fails.
C10_EntryCount ==
  Built => Len(entries_iterator) = n_entries

\* mk_no_null is over, or has handed its stream to build.
SortOver == mk_pc \in {"build", "done"}
Handed == phase # "sorting"

\* C11 (external sort): with chunk_size >= 1, k >= 2 and no I/O error, the
\* sorter hands build a stream, and the stream is non-decreasing by value and
\* holds exactly the rows of the input, each as often as the input does.
C11_ExternalSort ==
  (SortOver /\ mk_args.kway >= 2 /\ io.fault = "none") =>
    /\ Handed
    /\ IsSortedVals([i \in 1..Len(entries_iterator) |-> entries_iterator[i].val])
    /\ SameBag(entries_iterator, records)

\* C16 (sorter I/O errors propagate): a run of mk_no_null in which an I/O
\* error happened - creating the temporary directory, writing a temporary
\* file, reading one back - ends by returning an error.
C16_SorterErrorsPropagate ==
  (mk_pc = "done" /\ io.failed # "none") => mk_result.status = "err"

\* The value a reader finds where val_rw.write stored the String q.
Padded(q) == StrOrd(StrRW_read(val_rw, StrRW_write(val_rw, q)))

\* C12 (string lookup): on an index of fixed-width Strings, an exact-match
\* query for a String q shorter than the width returns an entry whose stored
\* value is q right-padded with null bytes, whenever the index holds one.
C12_StringLookup ==
  (Built /\ val_rw.kind = "str" /\ query.mode = "GetFirst") =>
    LET q == StrOf(query.value)
    IN (/\ Len(q) < val_rw.n_bytes
        /\ \E i \in 1..Len(file) : file[i].val = Padded(q))
         => /\ ~Failed(visitor)
            /\ IsSome(visitor.entry)
            /\ visitor.entry[1].val = Padded(q)

\* The entries of the index holding v, in the ascending order of the stored
\* tree: build writes the stream in that order, so ties keep stream order.
FirstHolding(v) ==
  entries_iterator[CHOOSE i \in 1..Len(entries_iterator) :
                     /\ entries_iterator[i].val = v
                     /\ \A j \in 1..(i - 1) : entries_iterator[j].val # v]

\* C13 (first-match rule): when a get of a held value returns an entry,
\* through SubTreeR::get or through a VisitorExact traversal, that entry is
\* the first of the entries holding the value in the ascending order of the
\* stored tree.
C13_FirstMatch ==
  (Built /\ query.mode \in {"Get", "GetFirst"} /\ Holds(query.value)) =>
    IF query.mode = "Get"
    THEN (answer.status = "ok" /\ IsSome(answer.entry)) =>
           answer.entry[1] = FirstHolding(query.value)
    ELSE (~Failed(visitor) /\ IsSome(visitor.entry)) =>
           visitor.entry[1] = FirstHolding(query.value)

\* The values stored in a buffer, and what a separator record requires.
Vals(buf) == { buf[i].val : i \in 1..Len(buf) }
Ascending(buf) == \A i \in 1..(Len(buf) - 1) : buf[i].val <= buf[i + 1].val
Separates(rec, left, right) ==
  /\ \A x \in Vals(left) : x <= rec.val
  /\ \A x \in Vals(right) : rec.val <= x

RECURSIVE Separated(_, _, _)
\* An L1 page l1 with its Len(l1) + 1 sub-trees in st.
PageSeparated(l1, sub_tree, st, e) ==
  LET size == byte_size(sub_tree, e)
      n == Len(l1)
  IN /\ Ascending(l1)
     /\ \A i \in 0..(n - 1) :
          Separates(l1[i + 1], Child(st, i, size, e), Child(st, i + 1, size, e))
     /\ \A i \in 0..n : Separated(sub_tree, Child(st, i, size, e), e)
\* The separator invariant in the node stored in buf and in every node below.
Separated(node, buf, e) ==
  LET n == node.n_elems
  IN CASE node.kind = "L1Leaf" -> Ascending(buf)
       [] node.kind = "L1Node" ->
            PageSeparated(L1Node_l1_buff(node, buf, e), SubTreeOf(node),
                          L1Node_st_buff(node, buf, e), e)
       [] node.kind = "LDNode" ->
            LET ld == LDNode_ld_buff(node, buf, e)
                l1 == LDNode_l1_buff(node, buf, e)
                st == LDNode_st_buff(node, buf, e)
                group(i) == PageL1(node, l1, i, e) \o PageSt(node, st, i, e)
            IN /\ Ascending(ld)
               /\ \A i \in 0..(n - 1) :
                    Separates(ld[i + 1], group(i), group(i + 1))
               /\ \A i \in 0..n :
                    PageSeparated(PageL1(node, l1, i, e), SubTreeOf(node),
                                  PageSt(node, st, i, e), e)
       [] node.kind = "RootL1Node" ->
            LET size == byte_size(SubTreeOf(node), e)
                l1 == Slice(buf, 0, n * e, e)
                r_buff == SliceFrom(buf, n * e, e)
                spine == SliceFrom(r_buff, n * size, e)
                child(i) == IF i < n THEN Child(r_buff, i, size, e) ELSE spine
            IN /\ Ascending(l1)
               /\ \A i \in 0..(n - 1) :
                    Separates(l1[i + 1], child(i), child(i + 1))
               /\ \A i \in 0..(n - 1) : Separated(SubTreeOf(node), child(i), e)
               /\ Separated(RightmostOf(node), spine, e)
       [] node.kind = "RootLDNode" ->
            LET l1_len == n * node.n_l1page_elems * e
                st_len == n * (node.n_l1page_elems + 1)
                            * byte_size(SubTreeOf(node), e)
                ld == Slice(buf, 0, n * e, e)
                l1 == Slice(buf, n * e, n * e + l1_len, e)
                st == Slice(buf, n * e + l1_len, n * e + l1_len + st_len, e)
                spine == SliceFrom(buf, n * e + l1_len + st_len, e)
                group(i) ==
                  IF i < n
                  THEN PageL1(node, l1, i, e) \o PageSt(node, st, i, e)
                  ELSE spine
            IN /\ Ascending(ld)
               /\ \A i \in 0..(n - 1) :
                    Separates(ld[i + 1], group(i), group(i + 1))
               /\ \A i \in 0..(n - 1) :
                    PageSeparated(PageL1(node, l1, i, e), SubTreeOf(node),
                                  PageSt(node, st, i, e), e)
               /\ Separated(RightmostOf(node), spine, e)

\* C17 (separator invariant): after build has written a non-decreasing stream,
\* in every node of the file the stored records are ascending and the record
\* at slot i is >= every value of sub-tree i and <= every value of sub-tree
\* i + 1 (in LD nodes the sub-trees are the L1-page groups, in root nodes the
\* last sub-tree is the right spine).
C17_SeparatorInvariant ==
  Built => Separated(Root, file, args.e)
\* C17 witness: a written tree of depth 3 or more whose root is a RootLDNode
\* with a non-empty right spine, holding more than one value.
C17_Witness ==
  /\ HasSpine
  /\ Root.kind = "RootLDNode"
  /\ byte_size(RightmostOf(Root), args.e) > 0
  /\ Cardinality(Vals(file)) >= 3
  /\ Separated(Root, file, args.e)

\* The numbers of the crate version: version is "major.minor.patch".
SemVer ==
  CHOOSE t \in VersionNums \X VersionNums \X VersionNums :
    version = format_usize(t[1]) \o << "." >> \o format_usize(t[2])
                \o << "." >> \o format_usize(t[3])

\* C15 (header version bytes): the three bytes write_meta leaves at offset 10
\* of the file are the major, the minor and the patch number of the crate
\* version, in that order.
C15_HeaderVersion ==
  header.status = "ok" =>
    SubSeq(header.bytes, 11, 13) = << SemVer[1], SemVer[2], SemVer[3] >>

\* What root.write was given and what it did: build ran past the planner.
Wrote == phase \in {"built", "failed"} /\ meta[1].layout.status = "ok"
Consumed == SubSeq(entries_iterator, 1, n_entries)

\* C18 (write coverage): given at least count(root) = n_entries entries,
\* root.write returns Ok, leaves exactly the entries after the first
\* n_entries in the iterator, and every slot of the data part holds one of
\* the consumed entries, each of them in exactly one slot; given fewer
\* entries it returns an error.
C18_WriteCoverage ==
  Wrote =>
    IF Len(entries_iterator) >= n_entries
    THEN /\ build_result.status = "ok"
         /\ build_result.it
              = SubSeq(entries_iterator, n_entries + 1, Len(entries_iterator))
         /\ Len(file) = n_entries
         /\ \A i \in 1..n_entries :
              Cardinality({ j \in 1..Len(file) : file[j] = Consumed[i] }) = 1
    ELSE build_result.status = "err"

\* The entries a range or all query without limit has to visit, in stream
\* order (the ascending order of the stored tree), and the identifiers of
\* the entries it did visit, in visit order.
Unlimited == query.mode \in {"Range", "All"} /\ query.limit = UsizeMax
ToVisit ==
  Matching(query.value, IF query.mode = "Range" THEN query.hi ELSE query.value)
Visited == [i \in 1..Len(visitor.entries) |-> visitor.entries[i].id]
\* Identifiers are stream positions, so ToVisit holds the identifiers a..b.
\* A walk from a central position p visits p, p - 1, .., a leftward and
\* p + 1, .., b rightward, each once and none skipped.
IsWalk(ids, a, b, p) ==
  /\ SelectSeq(ids, LAMBDA x : x <= p) = [i \in 1..(p - a + 1) |-> p + 1 - i]
  /\ SelectSeq(ids, LAMBDA x : x > p) = [i \in 1..(b - p) |-> p + i]

\* The outer records of the root (in every node shape the first n_elems
\* slots of its buffer) and the binary search the root starts a query with.
OuterRecords == Slice(file, 0, Root.n_elems * args.e, args.e)
OuterSearch == RawEntries_binary_search(OuterRecords, query.value)
CentralHit == Built /\ Unlimited /\ Root.n_elems > 0 /\ OuterSearch.found
HitEntry == RawEntries_get_entry(OuterRecords, OuterSearch.i)

\* C19 (engine step on a central hit): when the root's binary search hits
\* its outer slot i, the traversal does not panic (no slice outside the
\* node's bytes), the hit record is the first entry visited (visit_center),
\* and, if entries of the queried range follow it in the tree, the ascending
\* side starts with the very next one: the first entry of child i + 1, which
\* is the right spine when i = n_elems - 1 in a RootL1Node or RootLDNode.
C19_CentralHit ==
  CentralHit =>
    /\ ~visitor.panic
    /\ Visited # << >>
    /\ Visited[1] = HitEntry.id
    /\ HitEntry.id < ToVisit[Len(ToVisit)].id =>
         LET asc_side == SelectSeq(Visited, LAMBDA x : x > HitEntry.id)
         IN asc_side # << >> /\ asc_side[1] = HitEntry.id + 1

\* C20 (lateral walk order): when a range or all query without limit
\* returns, the entries it visited are, leftward of some central position,
\* the matching entries in descending order and, rightward of it, the
\* matching entries in ascending order, every one exactly once and none
\* skipped, whatever the shapes of the nodes walked through.
C20_LateralWalkOrder ==
  (Built /\ Unlimited /\ ~Failed(visitor)) =>
    IF ToVisit = << >>
    THEN Visited = << >>
    ELSE LET a == ToVisit[1].id
             b == ToVisit[Len(ToVisit)].id
         IN \E p \in (a - 1)..b : IsWalk(Visited, a, b, p)

\* A built non-empty file whose root has one of the sub-tree shapes, so that
\* the whole data part is the region of a sub-tree, and a visitor that
\* accepts every entry of it and never lowers a direction flag.
SubTreeRoot ==
  Built /\ n_entries > 0 /\ Root.kind \in {"L1Leaf", "L1Node", "LDNode"}
KeepsGoing == VisitorRange_new(0, MaxDeepVal + MaxVal, UsizeMax)
ValsOf(s) == [i \in 1..Len(s) |-> s[i].val]
EnumeratedAsc == visit_asc(Root, KeepsGoing, file, args.e)
EnumeratedDesc == visit_desc(Root, KeepsGoing, file, args.e)

\* C21 (ascending enumeration): visit_asc on a sub-tree, with a visitor that
\* keeps visit_asc() true, completes and hands visit_he_center every entry of
\* the region exactly once, outer LD records included, in non-decreasing
\* order of value.
C21_AscendingEnumeration ==
  SubTreeRoot =>
    /\ ~Failed(EnumeratedAsc)
    /\ SameBag(EnumeratedAsc.entries, file)
    /\ IsSortedVals(ValsOf(EnumeratedAsc.entries))

\* C22 (descending enumeration): visit_desc on a sub-tree, with a visitor
\* that keeps visit_desc() true, completes and hands visit_le_center every
\* entry of the region exactly once, outer LD records included, in
\* non-increasing order of value, the largest entry first.
C22_DescendingEnumeration ==
  SubTreeRoot =>
    /\ ~Failed(EnumeratedDesc)
    /\ SameBag(EnumeratedDesc.entries, file)
    /\ IsSortedVals(Reverse(ValsOf(EnumeratedDesc.entries)))

\* C23 (cancellation): in no query does the engine call visit_le_center on a
\* visitor whose visit_desc() is false, or visit_he_center on one whose
\* visit_asc() is false; a VisitorExact, whose flags are always false,
\* receives neither call.
C23_Cancellation ==
  (Built /\ query # NoQuery) => ~visitor.late

\* The binary search has been applied to the page.
Searched == phase = "page" /\ query.mode = "BinarySearch"
\* C24 (binary search): on a non-empty ascending record array of length k
\* and a value v, binary_search returns Found(i) with records[i].val = v
\* whenever v occurs in the array, and otherwise NotFound(i) with i in
\* [0, k], records[i-1].val < v when i > 0 and v < records[i].val when i < k
\* (indices from 0).
C24_BinarySearch ==
  Searched =>
    LET k == Len(file)
        v == query.value
        i == answer.i
    IN IF \E j \in 1..k : file[j].val = v
       THEN answer.found /\ 0 <= i /\ i < k /\ RawEntries_get_val(file, i) = v
       ELSE /\ ~answer.found
            /\ 0 <= i /\ i <= k
            /\ i > 0 => RawEntries_get_val(file, i - 1) < v
            /\ i < k => v < RawEntries_get_val(file, i)
\* Both outcomes on an array of more than two records with a duplicate: a
\* value found after more than one halving, and an absent value whose
\* insertion point is strictly inside the array.
C24_Witness ==
  /\ Searched
  /\ Len(file) > 2
  /\ \E j \in 1..(Len(file) - 1) : file[j].val = file[j + 1].val
  /\ ~answer.found
  /\ 0 < answer.i /\ answer.i < Len(file)

\* C28 (knn heap bound): for every k >= 0, in a knn query the heap of the
\* visitor holds at most k neighbours and no visit call fails, so that a
\* query with k = 0 completes and returns an empty collection.  The failure
\* of a visit call is looked for on the files of one non-empty leaf, where
\* the engine does nothing but search the leaf and call the visitor.
C28_KnnHeapBound ==
  (Built /\ query.mode = "Knn") =>
    /\ Len(visitor.knn) <= query.k
    /\ (n_entries > 0 /\ Root.kind = "L1Leaf") => ~visitor.panic

\* The closure has been called on the values query.value and query.hi.
Measured == phase = "closure" /\ query.mode = "Distance"
\* |a - b| as a number, in one limb more than the type of a and b has: the
\* difference of the two never overflows there.
AbsDiff(a, b) ==
  LET wide == Len(a) + 1
  IN overflowing_abs(
       wrapping_sub(SignExtend(a, wide), SignExtend(b, wide))).value
\* C29 (distance function): for every signed value type and every pair
\* (a, b) of values of that type, the distance closure returns |a - b|, and
\* neither the subtraction nor the absolute value overflows.
C29_SignedDistance ==
  Measured =>
    /\ ~answer.overflow
    /\ SignExtend(answer.value, Len(answer.value) + 1)
         = AbsDiff(query.value, query.hi)

\* C27 (merge termination): for every k >= 1 and every number of chunk
\* files, each level of reduce_to_k_files strictly reduces the file count, so
\* that it terminates, with a TmpDir of at most k files: whenever
\* reduce_to_k_files goes from one level to the next, the next level holds
\* fewer files.
C27_MergeTermination ==
  [][(mk_pc = "reduce" /\ tmp_dir'.level = tmp_dir.level + 1)
       => tmp_dir'.n_files < tmp_dir.n_files]_vars

\* The planner has run on constants with nL1 >= 1 and nL1InLD >= 1.
PlannerRan ==
  /\ phase = "planned"
  /\ meta[1].constants.n_entries_per_l1page >= 1
  /\ meta[1].constants.n_l1page_per_ldpage >= 1
\* C25 (right-spine depth): whenever the planner chooses depth d for n
\* entries and leaves a remainder, the right-spine layout it plans for the
\* remainder has depth <= d - 1; this for every layout of the right spine
\* and for every nL1 >= 1 and nL1InLD >= 1.
C25_RightSpineDepth ==
  PlannerRan =>
    \A i \in 1..(Len(Spine) - 1) : Spine[i + 1].depth <= Spine[i].depth - 1

\* The capacity n_sub of a sub-tree at depth 1 of a tree of depth d >= 1: an
\* L1 page for d = 1, an LD page of L1 pages for d = 2, and for a deeper tree
\* an L1 page (d odd) or the outer records of an LD page (d even) with one
\* tree of depth d - 1 under each record and one more.  A tree of depth 0 has
\* no sub-tree.
RECURSIVE SubTreeCapacity(_, _)
SubTreeCapacity(d, cte) ==
  LET n_l1 == cte.n_entries_per_l1page
      n_ld_elem == cte.n_l1page_per_ldpage - 1
  IN IF d = 0 THEN 0
     ELSE IF d = 1 THEN n_l1
     ELSE IF d = 2 THEN n_ld_elem + (n_ld_elem + 1) * n_l1
     ELSE IF d % 2 = 1 THEN n_l1 + (n_l1 + 1) * SubTreeCapacity(d - 1, cte)
     ELSE n_ld_elem + (n_ld_elem + 1) * SubTreeCapacity(d - 1, cte)
\* The entries a root of the given fanout accounts for apart from its
\* last sub-tree: its records and one sub-tree under each.
RegularPart(fanout, n_sub) == fanout + fanout * n_sub
\* C26 (root fanout): in every layout the planner returns, and in every
\* right-spine layout nested in it, n_entries_root is at most nL1 and is the
\* smallest fanout whose regular part accounts for at least N - n_sub of the
\* N entries of that layout.
C26_RootFanout ==
  Planned =>
    \A i \in 1..Len(Spine) :
      LET n_root == Spine[i].n_entries_root
          n_sub == SubTreeCapacity(Spine[i].depth, meta[1].constants)
          n == SpineEntries(i)
      IN /\ n_root <= meta[1].constants.n_entries_per_l1page
         /\ RegularPart(n_root, n_sub) >= n - n_sub
         /\ n_root > 0 => RegularPart(n_root - 1, n_sub) < n - n_sub
\* C30 (planner arithmetic): for every N and every constants pair with
\* nL1 >= 1 and nL1InLD >= 1, no unsigned subtraction of BSTreeLayout::from
\* or from_known_depth goes below zero, at the top level or for a right
\* spine.
C30_PlannerArithmetic ==
  PlannerRan => ~meta[1].layout.wrapped

\* C14 (right-spine boundary): in every layout the planner returns, a layout
\* with a right spine (the root is then a RootL1Node or a RootLDNode) leaves
\* at least one entry to that spine, and N = nL1 + 1 entries give a depth-1
\* layout with a non-empty right spine.
C14_RightSpineBoundary ==
  Planned =>
    /\ \A i \in 1..Len(Spine) :
         IsSome(Spine[i].rigthmost_subtree) => SpineEntries(i + 1) >= 1
    /\ n_entries = meta[1].constants.n_entries_per_l1page + 1 =>
         /\ Spine[1].depth = 1
         /\ IsSome(Spine[1].rigthmost_subtree)
         /\ SpineEntries(2) >= 1

=============================================================================
